---- MODULE Spec2Model ----
(***************************************************************************)
(* Verification model of the email-retrieval facade.                      *)
(*                                                                         *)
(* Part 1: the synchronous GmailClient.get_messages generator, in its two *)
(*   variants: "A" is src/src/gmail_impl/gmail_client.py, "B" is           *)
(*   src/src/gmail_impl/src/gmail_impl/gmail_client.py.                    *)
(* Part 2: the asynchronous GmailClient of                                 *)
(*   src/src/gmail_impl/src/gmail_impl/client.py and the GmailConfig that  *)
(*   builds its service.                                                   *)
(*                                                                         *)
(* Strings of the program that are compared with each other (message ids)  *)
(* are sequences: the empty string is <<>>, the id the provider gives to   *)
(* the i-th message of page p is <<p, i>>.  Python's None is <<>> for the  *)
(* optional integers (limit, page_token) and "None" for _service.          *)
(***************************************************************************)
EXTENDS Integers, Sequences, FiniteSets, TLC

\* ------------------------------------------------------------------ bounds
MaxLimit == 3          \* limits 0..MaxLimit, and None
MaxPages == 2          \* list responses the provider gives to one call
MaxPageLen == 2        \* messages in one list response
MaxListed == 4         \* messages the provider lists to one call, in all
MaxCalls == 2          \* get_messages calls made on one client
MaxAsyncOps == 4       \* operations invoked on one async client
MaxDIOps == 4          \* registrations, imports, get_client calls and requests
MaxRemote == 2         \* messages the remote mail service lists
MaxHeaderLen == 4      \* characters of a header value
MaxParts == 2          \* parts of a multipart node
MaxTextLen == 3        \* characters of a text that is encoded and decoded
MaxDataLen == 3        \* characters of a body data string that is no encoding
MaxHtmlPieces == 4     \* tags, entities and characters of an HTML body
MaxBodyLen == 2        \* characters of body_text and of body_html of an Email
MaxHeaders == 2        \* headers of a message
MaxParses == 2         \* _parse_message calls made on one client

\* --------------------------------------------------------- program constants
HTTP_UNAUTHORIZED == 401
HTTP_FORBIDDEN == 403
HTTP_NOT_FOUND == 404
HTTP_SERVER_ERROR == 500
HTTP_BAD_REQUEST == 400   \* here also the representative of "any other status"
PAGE_CAP == 100

VARIABLES
    variant,           \* which source file the client is: "A" or "B"
    service,           \* GmailClient._service: "None" or "svc"
    verified,          \* history: a getProfile succeeded on the current service
    pc,                \* position of the generator
    limit,             \* argument of get_messages: <<>> (None) or <<n>>
    messages_yielded,  \* local of get_messages
    page_token,        \* local of get_messages: <<>> (None) or <<k>>
    msgs,              \* local: the "messages" of the current list response
    next_token,        \* the "nextPageToken" of the current list response
    idx,               \* position of the for loop in msgs (next to process)
    yielded,           \* history: the Emails yielded by this call, in order
    listed,            \* history: the ids listed to this call, in order
    fetched,           \* history: per processed message, its id and whether
                       \*   the provider returned a well-formed payload for it
    last,              \* history: detail of the last request and its outcome
    exc,               \* exception that reached the caller, or "none"
    listCalls,         \* history: list requests issued by this call
    getCalls,          \* history: per-message get requests issued by this call
    listReqs,          \* history: the parameters of the list requests
    callNo,            \* number of get_messages calls made so far
    a_service,         \* async GmailClient._service: "None" or "svc"
    a_last,            \* async: the last operation and its outcome
    a_ops,             \* async: number of operations invoked
    a_reqs,            \* async: provider requests (list, get) issued
    a_inctx,           \* async: inside an `async with` body
    a_resp,            \* async: what the provider raised to the last
                       \*   get_email_content (NoExc when it returned)
    d_factory,         \* client.py: _client_factory, "None" or a Client class
    d_attr,            \* what the attribute email_api.get_client is bound to
    d_imported,        \* the implementation packages imported so far
    d_lastReg,         \* history: the factory registered last
    d_regAfter,        \* history: a factory was registered after the import
                       \*   of mail_client_adapter
    d_made,            \* history: number of client instances constructed
    d_ids,             \* history: the instances get_client has returned
    d_classes,         \* history: the classes of those instances
    d_last,            \* history: the last operation and its outcome
    d_ops,             \* number of operations made so far
    n_impl,            \* normalizer: the client whose helper was applied
    n_fn,              \* normalizer: the helper applied, "none" before
    n_in,              \* normalizer: the input the helper is applied to
    n_out,             \* normalizer: what the helper returned or raised
    p_impl,            \* parser: the client whose _parse_message is called
    p_pool,            \* parser: the messages given to it, "full" or "small"
    p_calls,           \* parser: per call in progress, its message, its
                       \*   position, its locals and what it returned
    p_parses           \* parser: number of calls started so far

svars == <<variant, service, verified, pc, limit, messages_yielded, page_token,
           msgs, next_token, idx, yielded, listed, fetched, last, exc,
           listCalls, getCalls, listReqs, callNo>>
avars == <<a_service, a_last, a_ops, a_reqs, a_inctx, a_resp>>
dvars == <<d_factory, d_attr, d_imported, d_lastReg, d_regAfter, d_made, d_ids, d_classes,
           d_last, d_ops>>
nvars == <<n_impl, n_fn, n_in, n_out>>
pvars == <<p_impl, p_pool, p_calls, p_parses>>
xvars == <<dvars, nvars, pvars>>
vars == <<svars, avars, xvars>>

None == <<>>
Some(x) == <<x>>
EmptyStr == <<>>
Min(a, b) == IF a <= b THEN a ELSE b

\* ------------------------------------------------------- exception classes
\* The classes an exception of class c is an instance of.
Bases(c) ==
    CASE c = "HttpError"         -> {"HttpError", "Exception"}
      [] c = "KeyError"          -> {"KeyError", "LookupError", "Exception"}
      [] c = "ValueError"        -> {"ValueError", "Exception"}
      [] c = "TypeError"         -> {"TypeError", "Exception"}
      [] c = "AttributeError"    -> {"AttributeError", "Exception"}
      [] c = "RuntimeError"      -> {"RuntimeError", "Exception"}
      [] c = "OSError"           -> {"OSError", "Exception"}
      [] c = "ConnectionError"   -> {"ConnectionError", "OSError", "Exception"}
      [] c = "FileNotFoundError" -> {"FileNotFoundError", "OSError", "Exception"}
      [] c = "RefreshError"      -> {"RefreshError", "Exception"}
      [] c = "binascii.Error"    -> {"binascii.Error", "ValueError", "Exception"}
      [] c = "UnicodeDecodeError" ->
             {"UnicodeDecodeError", "UnicodeError", "ValueError", "Exception"}
      [] OTHER                   -> {c, "Exception"}

IsInstance(c, classes) == Bases(c) \cap classes # {}

\* An exception value: its class and, for an HttpError, resp.status.
Exc(c, s) == [cls |-> c, status |-> s]
HttpStatuses == {HTTP_UNAUTHORIZED, HTTP_FORBIDDEN, HTTP_NOT_FOUND,
                 HTTP_SERVER_ERROR, HTTP_BAD_REQUEST}
\* What a provider request can raise: an HttpError of some status, or an
\* exception that is not an HttpError (a network failure).
RequestFailures == {Exc("HttpError", s) : s \in HttpStatuses}
                       \cup {Exc("OSError", 0)}

\* Mutant of HandleApiErrorA: 403 is not treated as an authorization error.
HandleApiErrorA_only401(e) ==
    IF e.cls = "HttpError" /\ e.status = HTTP_UNAUTHORIZED THEN "RuntimeError"
    ELSE "ConnectionError"

\* GmailClient._handle_api_error (variant A): the class it raises.
HandleApiErrorA(e) ==
    IF e.cls = "HttpError" /\ e.status \in {HTTP_UNAUTHORIZED, HTTP_FORBIDDEN}
    THEN "RuntimeError"
    ELSE IF e.cls = "HttpError" /\ e.status \in {HTTP_NOT_FOUND, HTTP_SERVER_ERROR}
    THEN "ConnectionError"
    ELSE "ConnectionError"

\* GmailClient._handle_http_error (variant B): the class it raises.
HandleHttpErrorB(e) ==
    IF e.status = HTTP_UNAUTHORIZED THEN "RuntimeError"
    ELSE IF e.status = HTTP_FORBIDDEN THEN "RuntimeError"
    ELSE "ConnectionError"

\* The except clauses that enclose the loop of get_messages: the class that
\* reaches the caller when exception e escapes the loop body.
\*   A: except Exception as e: self._handle_api_error(e, ...)
\*   B: except HttpError -> _handle_http_error; except Exception -> ConnectionError
OuterHandler(v, e) ==
    IF v = "A" THEN HandleApiErrorA(e)
    ELSE IF IsInstance(e.cls, {"HttpError"}) THEN HandleHttpErrorB(e)
    ELSE "ConnectionError"

\* The except clause around one message of the for loop: TRUE when e is
\* swallowed and the loop continues with the next message.
\*   A: except Exception: continue
\*   B: except (KeyError, ValueError, TypeError): continue
InnerCatches(v, e) ==
    IF v = "A" THEN IsInstance(e.cls, {"Exception"})
    ELSE IsInstance(e.cls, {"KeyError", "ValueError", "TypeError"})

\* ------------------------------------------------------------- the provider
\* The id the provider lists for the i-th message of its p-th list response.
ListedId(p, i) == <<p, i>>

\* What messages().get(id=i).execute() can return: a payload whose "id" is the
\* requested id, is the empty string, or is missing, and whose headers are
\* well formed ("good"), hold a null value ("nullValue": AttributeError on
\* value.strip()) or are null themselves ("nullHeaders": TypeError on iteration).
Shapes == {"good", "nullValue", "nullHeaders"}
Payloads(i) ==
    {[hasId |-> TRUE, id |-> x, shape |-> s] : x \in {i, EmptyStr}, s \in Shapes}
        \cup {[hasId |-> FALSE, id |-> EmptyStr, shape |-> s] : s \in Shapes}
NoPayload == [hasId |-> FALSE, id |-> EmptyStr, shape |-> "none"]
NoExc == Exc("none", 0)

\* A payload the normalizer can turn into a usable Email.
WellFormed(p) == p.hasId /\ p.id # EmptyStr /\ p.shape = "good"

\* --------------------------------------------------------------- the parser
Email(i) == [id |-> i]
Parsed(i) == [kind |-> "email", email |-> Email(i), cls |-> "none"]
Raises(c) == [kind |-> "exc", email |-> Email(EmptyStr), cls |-> c]

\* The exception the header loop raises on a payload, "none" if it does not.
HeaderLoopError(p) ==
    CASE p.shape = "nullHeaders" -> "TypeError"
      [] p.shape = "nullValue"   -> "AttributeError"
      [] OTHER                   -> "none"

\* GmailClient._parse_message, variant A: everything is caught and replaced by
\* the sentinel Email, whose id is the empty string.
ParseMessageA(p) ==
    LET msg_id == IF p.hasId THEN p.id ELSE EmptyStr
    IN  IF msg_id = EmptyStr THEN Parsed(EmptyStr)               \* KeyError, caught
        ELSE IF HeaderLoopError(p) # "none" THEN Parsed(EmptyStr) \* caught
        ELSE Parsed(msg_id)

\* GmailClient._parse_message, variant B: the headers are read first, the id
\* is read last by message["id"]; nothing is caught.
ParseMessageB(p) ==
    IF HeaderLoopError(p) # "none" THEN Raises(HeaderLoopError(p))
    ELSE IF ~p.hasId THEN Raises("KeyError")
    ELSE Parsed(p.id)

ParseMessage(v, p) == IF v = "A" THEN ParseMessageA(p) ELSE ParseMessageB(p)

\* The test between parsing and the yield.
\*   A: if email_obj.id: yield email_obj        B: yield email
YieldsEmail(v, email) == IF v = "A" THEN email.id # EmptyStr ELSE TRUE

\* ------------------------------------------------- authentication, connection
\* The environment _authenticate and _ensure_connected run in:
\*   tokenLoads  the token file exists and Credentials.from_authorized_user_file
\*               loads it (otherwise creds stays None)
\*   valid       creds.valid
\*   refreshable creds.expired and creds.refresh_token
\*   refreshOk   creds.refresh(Request()) returns (otherwise raises RefreshError)
\*   credFile    the credentials file: "missing", "invalid" (the OAuth flow
\*               raises ValueError on it) or "good"
\*   buildOk     build("gmail", "v1", ...) returns (otherwise raises OSError)
\*   profile     outcome of the getProfile request: NoExc or the failure
AuthEnvs ==
    [tokenLoads : BOOLEAN, valid : BOOLEAN, refreshable : BOOLEAN,
     refreshOk : BOOLEAN, credFile : {"missing", "invalid", "good"}]
ConnEnvs == [buildOk : BOOLEAN, profile : {NoExc} \cup RequestFailures]

\* GmailClient._authenticate: "none" when it returns credentials, otherwise the
\* class of the exception it raises.
Authenticate(v, env) ==
    IF env.tokenLoads /\ env.valid THEN "none"
    ELSE IF env.tokenLoads /\ env.refreshable
    THEN IF env.refreshOk THEN "none"
         ELSE IF v = "A" THEN "RefreshError" ELSE "RuntimeError"
    ELSE CASE env.credFile = "missing" -> "FileNotFoundError"
           [] env.credFile = "invalid" -> IF v = "A" THEN "ValueError" ELSE "RuntimeError"
           [] OTHER                    -> "none"

\* The except clauses of _ensure_connected, variant B, around authentication,
\* build and the getProfile check.
EnsureHandlerB(c) ==
    IF IsInstance(c, {"RuntimeError", "FileNotFoundError"}) THEN c
    ELSE "ConnectionError"

\* GmailClient._ensure_connected on a client whose _service is None: the
\* resulting _service, whether getProfile succeeded, and the exception class
\* that reaches the caller ("none" when it returns).
EnsureConnected(v, auth, conn) ==
    LET a == Authenticate(v, auth)
    IN  IF a # "none"
        THEN [service |-> "None", verified |-> FALSE,
              exc |-> IF v = "A" THEN a ELSE EnsureHandlerB(a)]
        ELSE IF ~conn.buildOk
        THEN [service |-> "None", verified |-> FALSE,
              exc |-> IF v = "A" THEN "OSError" ELSE EnsureHandlerB("OSError")]
        ELSE IF conn.profile # NoExc
        THEN [service |-> "svc", verified |-> FALSE,
              exc |-> IF v = "A" THEN HandleApiErrorA(conn.profile)
                      ELSE EnsureHandlerB(conn.profile.cls)]
        ELSE [service |-> "svc", verified |-> TRUE, exc |-> "none"]

\* ------------------------------------------------------ get_messages: state
Limits == {None} \cup {Some(n) : n \in 0..MaxLimit}
NoLast == [op |-> "none", e |-> NoExc, p |-> NoPayload, id |-> EmptyStr]

InitSync ==
    /\ variant \in {"A", "B"}
    /\ service = "None"
    /\ verified = FALSE
    /\ pc = "idle"
    /\ limit = None
    /\ messages_yielded = 0
    /\ page_token = None
    /\ msgs = <<>>
    /\ next_token = None
    /\ idx = 1
    /\ yielded = <<>>
    /\ listed = <<>>
    /\ fetched = <<>>
    /\ last = NoLast
    /\ exc = "none"
    /\ listCalls = 0
    /\ getCalls = 0
    /\ listReqs = <<>>
    /\ callNo = 0

\* client.get_messages(limit=n): creates the generator; its body has not run
\* yet.  The caller may abandon an earlier generator that is suspended.
Call ==
    /\ pc \in {"idle", "yield", "done", "raised"}
    /\ callNo < MaxCalls
    /\ \E n \in Limits : limit' = n
    /\ callNo' = callNo + 1
    /\ pc' = "start"
    /\ messages_yielded' = 0
    /\ page_token' = None
    /\ msgs' = <<>>
    /\ next_token' = None
    /\ idx' = 1
    /\ yielded' = <<>>
    /\ listed' = <<>>
    /\ fetched' = <<>>
    /\ last' = NoLast
    /\ exc' = "none"
    /\ listCalls' = 0
    /\ getCalls' = 0
    /\ listReqs' = <<>>
    /\ UNCHANGED <<variant, service, verified, avars, xvars>>

\* First next() on the generator: self._ensure_connected(), then the locals.
Connect ==
    /\ pc = "start"
    /\ IF service # "None"
       THEN /\ pc' = "loop"
            /\ UNCHANGED <<service, verified, exc, last>>
       ELSE \E auth \in AuthEnvs, conn \in ConnEnvs :
              LET r == EnsureConnected(variant, auth, conn)
              IN  /\ service' = r.service
                  /\ verified' = r.verified
                  /\ exc' = r.exc
                  /\ pc' = IF r.exc = "none" THEN "loop" ELSE "raised"
                  /\ last' = [NoLast EXCEPT !.op = "connect"]
    /\ UNCHANGED <<variant, limit, messages_yielded, page_token, msgs, next_token,
                   idx, yielded, listed, fetched, listCalls, getCalls, listReqs,
                   callNo, avars, xvars>>

\* ------------------------------------------------ get_messages: the loop
\* Mutant of RemainingExhausted: the loop never checks what remains.
RemainingExhausted_never(lim, n) == FALSE

\* Top of the while loop: `remaining = limit - messages_yielded; if remaining
\* <= 0: break`.
RemainingExhausted(lim, n) == lim # None /\ lim[1] - n <= 0

\* Mutant of LimitReached: the for loop never checks the limit.
LimitReached_never(lim, n) == FALSE

\* Head of the for loop: `if limit is not None and messages_yielded >= limit:
\* return`.
LimitReached(lim, n) == lim # None /\ n >= lim[1]

\* params["maxResults"]
MaxResults(lim, n) == IF lim # None THEN Min(PAGE_CAP, lim[1] - n) ELSE PAGE_CAP

\* The ids of the list response number p that holds n messages.
PageIds(p, n) == [i \in 1..n |-> ListedId(p, i)]

\* One turn of `while True` up to the for loop: the limit check, the list
\* request and the test of its "messages".  The provider answers with any
\* number of messages, whatever maxResults asked for, and with or without a
\* nextPageToken; or the request fails.
ListPage ==
    /\ pc = "loop"
    /\ IF RemainingExhausted(limit, messages_yielded)
       THEN /\ pc' = "done"
            /\ UNCHANGED <<msgs, next_token, idx, listed, last, exc, listCalls,
                           listReqs>>
       ELSE /\ listCalls' = listCalls + 1
            /\ listReqs' = Append(listReqs,
                   [token |-> page_token,
                    maxResults |-> MaxResults(limit, messages_yielded)])
            /\ \/ \E e \in RequestFailures :
                    /\ last' = [NoLast EXCEPT !.op = "list", !.e = e]
                    /\ exc' = OuterHandler(variant, e)
                    \* a handler that returned would let A's `while True`
                    \* go round again and B's function end
                    /\ pc' = IF exc' # "none" THEN "raised"
                             ELSE IF variant = "A" THEN "loop" ELSE "done"
                    /\ UNCHANGED <<msgs, next_token, idx, listed>>
               \/ \E n \in 0..MaxPageLen, more \in BOOLEAN :
                    /\ more => listCalls' < MaxPages
                    /\ Len(listed) + n <= MaxListed
                    /\ last' = [NoLast EXCEPT !.op = "list"]
                    /\ msgs' = PageIds(listCalls', n)
                    /\ next_token' = IF more THEN Some(listCalls' + 1) ELSE None
                    /\ listed' = listed \o msgs'
                    /\ idx' = 1
                    /\ pc' = IF n = 0 THEN "done" ELSE "page"
                    /\ exc' = exc
    /\ UNCHANGED <<variant, service, verified, limit, messages_yielded, page_token,
                   yielded, fetched, getCalls, callNo, avars, xvars>>

\* Mutant of CurrentMsg: the page is walked from its end.
CurrentMsg_reversed(ms, i) == ms[Len(ms) + 1 - i]

\* The message the i-th iteration of `for msg in msgs` works on.
CurrentMsg(ms, i) == ms[i]

\* What becomes of exception e raised while one message is processed: it is
\* swallowed ("skip") or it leaves the generator as the class in .exc.
OnMessageError(v, e) ==
    IF InnerCatches(v, e) THEN [act |-> "skip", exc |-> "none"]
    ELSE [act |-> "raise", exc |-> OuterHandler(v, e)]

\* One iteration of `for msg in msgs` up to its yield, continue or raise: the
\* limit check, the per-message get request, the parse and the yield test.
FetchMessage ==
    /\ pc = "page"
    /\ idx <= Len(msgs)
    /\ IF LimitReached(limit, messages_yielded)
       THEN /\ pc' = "done"
            /\ UNCHANGED <<idx, yielded, fetched, last, exc, getCalls>>
       ELSE /\ getCalls' = getCalls + 1
            /\ \/ \E e \in RequestFailures :
                    LET r == OnMessageError(variant, e)
                    IN  /\ last' = [NoLast EXCEPT !.op = "get", !.e = e, !.id = CurrentMsg(msgs, idx)]
                        /\ fetched' = Append(fetched,
                               [id |-> CurrentMsg(msgs, idx), class |-> "unusable"])
                        /\ exc' = r.exc
                        /\ pc' = IF r.act = "skip" THEN "page" ELSE "raised"
                        /\ idx' = IF r.act = "skip" THEN idx + 1 ELSE idx
                        /\ UNCHANGED yielded
               \/ \E p \in Payloads(CurrentMsg(msgs, idx)) :
                    LET parsed == ParseMessage(variant, p)
                        r == IF parsed.kind = "exc"
                             THEN OnMessageError(variant, Exc(parsed.cls, 0))
                             ELSE IF YieldsEmail(variant, parsed.email)
                             THEN [act |-> "yield", exc |-> "none"]
                             ELSE [act |-> "skip", exc |-> "none"]
                    IN  /\ last' = [NoLast EXCEPT !.op = "get", !.p = p, !.id = CurrentMsg(msgs, idx)]
                        /\ fetched' = Append(fetched,
                               [id |-> CurrentMsg(msgs, idx),
                                class |-> IF WellFormed(p) THEN "wellformed"
                                          ELSE "unusable"])
                        /\ exc' = r.exc
                        /\ pc' = CASE r.act = "yield" -> "yield"
                                   [] r.act = "skip"  -> "page"
                                   [] OTHER           -> "raised"
                        /\ idx' = IF r.act = "skip" THEN idx + 1 ELSE idx
                        /\ yielded' = IF r.act = "yield"
                                      THEN Append(yielded, parsed.email)
                                      ELSE yielded
    /\ UNCHANGED <<variant, service, verified, limit, messages_yielded, page_token,
                   msgs, next_token, listed, listCalls, listReqs, callNo, avars, xvars>>

\* The caller asks for the next Email: the generator resumes after its yield
\* with `messages_yielded += 1` and goes to the next message.
Resume ==
    /\ pc = "yield"
    /\ messages_yielded' = messages_yielded + 1
    /\ idx' = idx + 1
    /\ pc' = "page"
    /\ UNCHANGED <<variant, service, verified, limit, page_token, msgs, next_token,
                   yielded, listed, fetched, last, exc, listCalls, getCalls,
                   listReqs, callNo, avars, xvars>>

\* Mutant of NextPageToken: the token of the request just made is kept.
NextPageToken_kept(current, results_token) == current

\* page_token = results.get("nextPageToken"): the token of the next request
\* is the one the response carries, None when it carries none.
NextPageToken(current, results_token) == results_token

\* After the for loop: `page_token = results.get("nextPageToken"); if not
\* page_token: break`.
NextPage ==
    /\ pc = "page"
    /\ idx > Len(msgs)
    /\ page_token' = NextPageToken(page_token, next_token)
    /\ pc' = IF next_token = None THEN "done" ELSE "loop"
    /\ UNCHANGED <<variant, service, verified, limit, messages_yielded, msgs,
                   next_token, idx, yielded, listed, fetched, last, exc, listCalls,
                   getCalls, listReqs, callNo, avars, xvars>>

InitAsyncIdle ==
    /\ a_service = "None"
    /\ a_last = [op |-> "none", out |-> "none", code |-> "none", emails |-> <<>>]
    /\ a_ops = 0
    /\ a_reqs = 0
    /\ a_inctx = FALSE
    /\ a_resp = NoExc

DNoLast == [op |-> "none", cls |-> "none", obj |-> 0, invoked |-> "none",
            exc |-> "none", route |-> "none", status |-> "none",
            called |-> <<>>, lacks |-> FALSE, limit |-> None, remote |-> 0,
            count |-> 0]

InitDI ==
    /\ d_factory = "None"
    /\ d_attr = "get_client"
    /\ d_imported = {}
    /\ d_lastReg = "None"
    /\ d_regAfter = FALSE
    /\ d_made = 0
    /\ d_ids = {}
    /\ d_classes = {}
    /\ d_last = DNoLast
    /\ d_ops = 0

NoInput == [kind |-> "none", v |-> <<>>]

\* No helper of the normalizer has been applied.
InitNormIdle ==
    /\ n_impl = "none"
    /\ n_fn = "none"
    /\ n_in = NoInput
    /\ n_out = <<>>

\* _parse_message has not been called.
InitParseIdle ==
    /\ p_impl = "none"
    /\ p_pool = "none"
    /\ p_calls = <<>>
    /\ p_parses = 0

Init == InitSync /\ InitAsyncIdle /\ InitDI /\ InitNormIdle /\ InitParseIdle

Next == Call \/ Connect \/ ListPage \/ FetchMessage \/ Resume \/ NextPage

Spec == Init /\ [][Next]_vars

\* A caller that makes one iterator on a new client and consumes it to its
\* end.
CallConsumed == pc = "idle" /\ Call

NextConsumed ==
    CallConsumed \/ Connect \/ ListPage \/ FetchMessage \/ Resume \/ NextPage

\* The body of the generator runs from one yield to the next without
\* waiting for anything but the provider's answers, and the consuming caller
\* asks for the next Email after every yield.
SpecConsumed ==
    Init /\ [][NextConsumed]_vars
        /\ WF_vars(Connect \/ ListPage \/ FetchMessage \/ Resume \/ NextPage)

\* ========================================================= the async client
\* An outcome of an async operation: "ok" or the class of the EmailError it
\* raises, with the exception's error_code and the ids of the Emails returned.
AOut(o, c) == [out |-> o, code |-> c, emails |-> <<>>]

\* GmailConfig._get_credentials and _run_oauth_flow: "ok" or what they raise.
GetCredentials(env) ==
    IF env.tokenLoads /\ env.valid THEN AOut("ok", "none")
    ELSE IF env.tokenLoads /\ env.refreshable
    THEN IF env.refreshOk THEN AOut("ok", "none")
         ELSE AOut("EmailAuthenticationError", "GMAIL_TOKEN_REFRESH_FAILED")
    ELSE CASE env.credFile = "missing" ->
                AOut("EmailAuthenticationError", "GMAIL_CREDENTIALS_NOT_FOUND")
           [] env.credFile = "invalid" ->
                AOut("EmailAuthenticationError", "GMAIL_OAUTH_FLOW_FAILED")
           [] OTHER -> AOut("ok", "none")

\* GmailConfig.get_gmail_service: credentials, build, connection test.
GetGmailService(auth, conn) ==
    LET c == GetCredentials(auth)
    IN  IF c.out # "ok" THEN c
        ELSE IF ~conn.buildOk
        THEN AOut("EmailConnectionError", "GMAIL_SERVICE_CREATION_FAILED")
        ELSE IF conn.profile # NoExc
        THEN AOut("EmailConnectionError", "GMAIL_CONNECTION_TEST_FAILED")
        ELSE AOut("ok", "none")

\* Mutant of NotConnected: the guard tests nothing.
NotConnected_never(svc) == FALSE

\* The guard `if not self._service` of both operations.
NotConnected(svc) == svc = "None"

\* error_code=f"GMAIL_HTTP_{status_code}"
HttpCode(st) ==
    CASE st = HTTP_UNAUTHORIZED -> "GMAIL_HTTP_401"
      [] st = HTTP_FORBIDDEN    -> "GMAIL_HTTP_403"
      [] st = HTTP_NOT_FOUND    -> "GMAIL_HTTP_404"
      [] st = HTTP_SERVER_ERROR -> "GMAIL_HTTP_500"
      [] st = HTTP_BAD_REQUEST  -> "GMAIL_HTTP_400"
      [] OTHER                  -> "GMAIL_HTTP_other"

\* GmailClient._handle_http_error of the async client; invalidId says that the
\* error text holds "Invalid id value".
AHandleHttpError(e, invalidId) ==
    IF e.status = HTTP_UNAUTHORIZED
    THEN AOut("EmailAuthenticationError", "GMAIL_AUTH_EXPIRED")
    ELSE IF e.status = HTTP_FORBIDDEN
    THEN AOut("EmailAuthenticationError", "GMAIL_FORBIDDEN")
    ELSE IF e.status = HTTP_BAD_REQUEST /\ invalidId
    THEN AOut("EmailNotFoundError", "EMAIL_NOT_FOUND")
    ELSE AOut("EmailConnectionError", HttpCode(e.status))

\* GmailClient._parse_gmail_message: the Email, or the exception raised.
ParseGmailMessage(p) ==
    IF HeaderLoopError(p) # "none" THEN Raises(HeaderLoopError(p))
    ELSE IF ~p.hasId THEN Raises("KeyError")
    ELSE Parsed(p.id)

\* What one per-message get can do: fail, or return a payload.
GetOutcomes(i) ==
    {[e |-> e, p |-> NoPayload, invalidId |-> FALSE] : e \in RequestFailures}
        \cup {[e |-> Exc("HttpError", HTTP_BAD_REQUEST), p |-> NoPayload,
               invalidId |-> TRUE]}
        \cup {[e |-> NoExc, p |-> p, invalidId |-> FALSE] : p \in Payloads(i)}

\* What the body of the for loop of list_inbox_messages does with one get
\* outcome: appends the parsed Email, skips the message (KeyError, ValueError,
\* TypeError), or leaves the loop with an exception.
MessageEffect(o) ==
    LET parsed == IF o.e # NoExc THEN Raises(o.e.cls) ELSE ParseGmailMessage(o.p)
    IN  IF parsed.kind = "email"
        THEN [act |-> "append", id |-> parsed.email.id, r |-> AOut("ok", "none")]
        ELSE IF IsInstance(parsed.cls, {"KeyError", "ValueError", "TypeError"})
        THEN [act |-> "skip", id |-> EmptyStr, r |-> AOut("ok", "none")]
        ELSE IF IsInstance(parsed.cls, {"HttpError"})
        THEN [act |-> "raise", id |-> EmptyStr, r |-> AHandleHttpError(o.e, o.invalidId)]
        ELSE [act |-> "raise", id |-> EmptyStr,
              r |-> AOut("EmailConnectionError", "GMAIL_LIST_FAILED")]

MessageEffects(i) == {MessageEffect(o) : o \in GetOutcomes(i)}

RECURSIVE InboxLoop(_, _, _, _)
\* The for loop of list_inbox_messages over the listed messages k..n, with the
\* Emails gathered and the requests issued so far: every result it can end
\* with, as the provider chooses the outcome of each get.
InboxLoop(k, n, emails, reqs) ==
    IF k > n THEN {[out |-> "ok", code |-> "none", emails |-> emails, reqs |-> reqs]}
    ELSE UNION {
           CASE f.act = "append" -> InboxLoop(k + 1, n, Append(emails, f.id), reqs + 1)
             [] f.act = "skip"   -> InboxLoop(k + 1, n, emails, reqs + 1)
             [] OTHER -> {[out |-> f.r.out, code |-> f.r.code, emails |-> <<>>,
                           reqs |-> reqs + 1]}
           : f \in MessageEffects(ListedId(1, k))}

ANoLast == [op |-> "none", out |-> "none", code |-> "none", emails |-> <<>>]
ALast(op, r) == [op |-> op, out |-> r.out, code |-> r.code, emails |-> r.emails]

\* async with client: / await client.__aenter__()
AEnter ==
    /\ a_ops < MaxAsyncOps
    /\ \E auth \in AuthEnvs, conn \in ConnEnvs :
         LET r == GetGmailService(auth, conn)
         IN  /\ a_service' = IF r.out = "ok" THEN "svc" ELSE a_service
             /\ a_inctx' = (a_inctx \/ r.out = "ok")
             /\ a_last' = ALast("aenter", r)
    /\ a_ops' = a_ops + 1
    /\ UNCHANGED <<a_reqs, a_resp, svars, xvars>>

\* Mutant of Close: the service is kept.
Close_keeps(svc) == svc

\* GmailClient.close, run by the caller and by __aexit__: the new _service.
Close(svc) == "None"

\* End of the `async with` body, normally or with an exception: __aexit__.
AExit ==
    /\ a_ops < MaxAsyncOps
    /\ a_inctx
    /\ \E bodyRaised \in BOOLEAN :
         a_last' = ALast("aexit", AOut(IF bodyRaised THEN "body raised" ELSE "ok", "none"))
    /\ a_service' = Close(a_service)
    /\ a_inctx' = FALSE
    /\ a_ops' = a_ops + 1
    /\ UNCHANGED <<a_reqs, a_resp, svars, xvars>>

\* await client.close()
AClose ==
    /\ a_ops < MaxAsyncOps
    /\ a_service' = Close(a_service)
    /\ a_last' = ALast("close", AOut("ok", "none"))
    /\ a_ops' = a_ops + 1
    /\ UNCHANGED <<a_reqs, a_inctx, a_resp, svars, xvars>>

\* await client.list_inbox_messages(limit)
AListInbox ==
    /\ a_ops < MaxAsyncOps
    /\ a_ops' = a_ops + 1
    /\ IF NotConnected(a_service)
       THEN /\ a_last' = ALast("list", AOut("EmailConnectionError", "CLIENT_NOT_CONNECTED"))
            /\ a_reqs' = a_reqs
       ELSE \/ \E e \in RequestFailures, b \in BOOLEAN :
                 /\ b => e = Exc("HttpError", HTTP_BAD_REQUEST)
                 /\ a_last' = ALast("list",
                        IF IsInstance(e.cls, {"HttpError"}) THEN AHandleHttpError(e, b)
                        ELSE AOut("EmailConnectionError", "GMAIL_LIST_FAILED"))
                 /\ a_reqs' = a_reqs + 1
            \/ \E n \in 0..MaxPageLen :
                 \E r \in InboxLoop(1, n, <<>>, 1) :
                    /\ a_last' = ALast("list", r)
                    /\ a_reqs' = a_reqs + r.reqs
    /\ UNCHANGED <<a_service, a_inctx, a_resp, svars, xvars>>

\* Mutant of IsNotFound: 404 gets no treatment of its own.
IsNotFound_never(e) == FALSE

\* get_email_content: `if e.resp.status == 404`.
IsNotFound(e) == e.status = HTTP_NOT_FOUND

\* await client.get_email_content(email_id)
AGetContent ==
    /\ a_ops < MaxAsyncOps
    /\ a_ops' = a_ops + 1
    /\ IF NotConnected(a_service)
       THEN /\ a_last' = ALast("get", AOut("EmailConnectionError", "CLIENT_NOT_CONNECTED"))
            /\ a_reqs' = a_reqs
            /\ a_resp' = NoExc
       ELSE /\ a_reqs' = a_reqs + 1
            /\ \E o \in GetOutcomes(ListedId(1, 1)) :
                 LET parsed == IF o.e # NoExc THEN Raises(o.e.cls) ELSE ParseGmailMessage(o.p)
                 IN  /\ a_resp' = o.e
                     /\ a_last' = ALast("get",
                        IF parsed.kind = "email"
                        THEN [AOut("ok", "none") EXCEPT !.emails = <<parsed.email.id>>]
                        ELSE IF IsInstance(parsed.cls, {"HttpError"})
                        THEN IF IsNotFound(o.e)
                             THEN AOut("EmailNotFoundError", "EMAIL_NOT_FOUND")
                             ELSE AHandleHttpError(o.e, o.invalidId)
                        ELSE AOut("EmailConnectionError", "GMAIL_GET_FAILED"))
    /\ UNCHANGED <<a_service, a_inctx, svars, xvars>>

NextAsync == AEnter \/ AExit \/ AClose \/ AListInbox \/ AGetContent

SpecAsync == Init /\ [][NextAsync]_vars

\* The client of src/src/gmail_impl/gmail_client.py alone.
InitA == Init /\ variant = "A"
SpecA == InitA /\ [][Next]_vars

\* ============================================ client registration and service
\* src/src/email_api/src/email_api/client.py (DummyClient, the registered
\* factory, get_client), the packages whose import changes what
\* email_api.get_client() gives (gmail_impl, mail_client_adapter), the routes of
\* mail_client_service and the ServiceBackedClient of mail_client_adapter.

\* The Client classes a caller can register: the Gmail client and any other.
Factories == {"GmailClient", "OtherClient"}
Methods == {"list_messages", "get_messages", "get_message", "mark_as_read",
            "delete_message"}
\* What getattr(client, name, None) finds: nothing, a value that is not
\* callable, or a method.
AttrStates == {"absent", "noncallable", "callable"}

\* Mutant of RegisterClientFactory: the first registration is kept.
RegisterClientFactory_keepsFirst(old, f) == IF old = "None" THEN f ELSE old

\* register_client_factory(factory): the new value of _client_factory.
RegisterClientFactory(old, f) == f

\* Mutant of GetClientFn: without a factory the call raises.
GetClientFn_raises(factory) ==
    IF factory # "None"
    THEN [invoked |-> factory, cls |-> factory, exc |-> "none"]
    ELSE [invoked |-> "none", cls |-> "none", exc |-> "RuntimeError"]

\* get_client of client.py: the factory it invokes, the class of the instance
\* it returns and the exception it raises.
GetClientFn(factory) ==
    IF factory # "None"
    THEN [invoked |-> factory, cls |-> factory, exc |-> "none"]
    ELSE [invoked |-> "none", cls |-> "DummyClient", exc |-> "none"]

\* Mutant of AdapterBinding: the import leaves email_api.get_client alone.
AdapterBinding_kept(attr) == attr

\* mail_client_adapter/__init__.py: what email_api.get_client is bound to
\* after `email_api.get_client = lambda: ServiceBackedClient(...)`.
AdapterBinding(attr) == "adapter_lambda"

\* email_api.get_client(): the attribute is looked up when the call is made.
GetClientAttr(attr, factory) ==
    IF attr = "adapter_lambda"
    THEN [invoked |-> "none", cls |-> "ServiceBackedClient", exc |-> "none"]
    ELSE GetClientFn(factory)

\* Calling a class makes a new object: its identity.
NewInstance(made) == made + 1

\* register_client_factory(F), called by any code.
DRegister ==
    /\ d_ops < MaxDIOps
    /\ \E f \in Factories :
         /\ d_factory' = RegisterClientFactory(d_factory, f)
         /\ d_lastReg' = f
         /\ d_regAfter' = ("mail_client_adapter" \in d_imported)
         /\ d_last' = [DNoLast EXCEPT !.op = "register", !.cls = f]
    /\ d_ops' = d_ops + 1
    /\ UNCHANGED <<d_attr, d_imported, d_made, d_ids, d_classes, svars, avars, nvars, pvars>>

\* First `import gmail_impl`: its __init__ registers GmailClient.
DImportGmail ==
    /\ d_ops < MaxDIOps
    /\ "gmail_impl" \notin d_imported
    /\ d_imported' = d_imported \cup {"gmail_impl"}
    /\ d_factory' = RegisterClientFactory(d_factory, "GmailClient")
    /\ d_lastReg' = "GmailClient"
    /\ d_regAfter' = ("mail_client_adapter" \in d_imported)
    /\ d_last' = [DNoLast EXCEPT !.op = "import gmail_impl", !.cls = "GmailClient"]
    /\ d_ops' = d_ops + 1
    /\ UNCHANGED <<d_attr, d_made, d_ids, d_classes, svars, avars, nvars, pvars>>

\* First `import mail_client_adapter`: its __init__ rebinds
\* email_api.get_client.
DImportAdapter ==
    /\ d_ops < MaxDIOps
    /\ "mail_client_adapter" \notin d_imported
    /\ d_imported' = d_imported \cup {"mail_client_adapter"}
    /\ d_attr' = AdapterBinding(d_attr)
    /\ d_last' = [DNoLast EXCEPT !.op = "import mail_client_adapter"]
    /\ d_ops' = d_ops + 1
    /\ UNCHANGED <<d_factory, d_lastReg, d_regAfter, d_made, d_ids, d_classes,
                   svars, avars, nvars, pvars>>

\* client = email_api.get_client()
DGetClient ==
    /\ d_ops < MaxDIOps
    /\ LET r == GetClientAttr(d_attr, d_factory)
           obj == NewInstance(d_made)
       IN  IF r.exc # "none"
           THEN /\ d_last' = [DNoLast EXCEPT !.op = "get_client", !.exc = r.exc]
                /\ UNCHANGED <<d_made, d_ids, d_classes>>
           ELSE /\ d_last' = [DNoLast EXCEPT !.op = "get_client", !.cls = r.cls,
                                 !.obj = obj, !.invoked = r.invoked]
                /\ d_made' = IF obj > d_made THEN obj ELSE d_made
                /\ d_ids' = d_ids \cup {obj}
                /\ d_classes' = d_classes \cup {r.cls}
    /\ d_ops' = d_ops + 1
    /\ UNCHANGED <<d_factory, d_attr, d_imported, d_lastReg, d_regAfter, svars, avars, nvars, pvars>>

\* DummyClient.get_messages(limit): `return iter([])`; the Emails it yields.
DummyGetMessages(lim) == <<>>

\* list(client.get_messages(limit)) on a DummyClient that get_client returned.
DDummyMessages ==
    /\ d_ops < MaxDIOps
    /\ "DummyClient" \in d_classes
    /\ \E lim \in Limits :
         d_last' = [DNoLast EXCEPT !.op = "dummy.get_messages",
                       !.cls = "DummyClient", !.limit = lim,
                       !.count = Len(DummyGetMessages(lim))]
    /\ d_ops' = d_ops + 1
    /\ UNCHANGED <<d_factory, d_attr, d_imported, d_lastReg, d_regAfter, d_made, d_ids,
                   d_classes, svars, avars, nvars, pvars>>

\* The public methods of the injected client, by its class; "OtherClient"
\* stands for any other client (the service's tests inject a Mock) and has
\* every combination.
ClassCaps(cls) ==
    CASE cls = "ServiceBackedClient" -> {[m \in Methods |-> "callable"]}
      [] cls \in {"GmailClient", "DummyClient"} ->
            {[m \in Methods |-> IF m = "get_messages" THEN "callable" ELSE "absent"]}
      [] OTHER -> [Methods -> AttrStates]

\* Mutant of RequireMethod: the attribute only has to be there.
RequireMethod_present(caps, name) ==
    IF caps[name] # "absent" THEN "fn" ELSE "501"

\* _require_method(client, name): the method, or HTTPException(501).
RequireMethod(caps, name) ==
    IF caps[name] = "callable" THEN "fn" ELSE "501"

Routes == {"list_messages", "get_message", "mark_as_read", "delete_message"}

\* The method a route asks _require_method for; the listing route prefers
\* list_messages `if hasattr(client, "list_messages")`, else get_messages.
RouteMethod(caps, route) ==
    IF route = "list_messages"
    THEN IF caps["list_messages"] # "absent" THEN "list_messages" ELSE "get_messages"
    ELSE route

\* A route handler on a client with the attributes caps: the status of the
\* answer and the client methods it invoked.  `returns` says whether the
\* invoked method returns a value the framework can send.
RouteHandler(caps, route, returns) ==
    LET name == RouteMethod(caps, route)
    IN  IF RequireMethod(caps, name) = "501"
        THEN [status |-> "501", called |-> <<>>]
        ELSE IF caps[name] # "callable"
        THEN [status |-> "500", called |-> <<>>]     \* TypeError: not callable
        ELSE [status |-> IF returns THEN "200" ELSE "500", called |-> <<name>>]

\* The client has no callable method for the capability of the route.
LacksCapability(caps, route) ==
    IF route = "list_messages"
    THEN caps["list_messages"] # "callable" /\ caps["get_messages"] # "callable"
    ELSE caps[route] # "callable"

\* A request to one of the routes of mail_client_service: `client = _client()`
\* and the handler's body.
DRoute ==
    /\ d_ops < MaxDIOps
    /\ LET r == GetClientAttr(d_attr, d_factory)
           obj == NewInstance(d_made)
       IN  IF r.exc # "none"
           THEN /\ \E route \in Routes :
                     d_last' = [DNoLast EXCEPT !.op = "route", !.route = route,
                                   !.exc = r.exc, !.status = "500"]
                /\ UNCHANGED <<d_made, d_ids, d_classes>>
           ELSE /\ \E route \in Routes, caps \in ClassCaps(r.cls), returns \in BOOLEAN :
                     LET h == RouteHandler(caps, route, returns)
                     IN  d_last' = [DNoLast EXCEPT !.op = "route", !.route = route,
                                       !.cls = r.cls, !.obj = obj,
                                       !.invoked = r.invoked,
                                       !.status = h.status, !.called = h.called,
                                       !.lacks = LacksCapability(caps, route)]
                /\ d_made' = IF obj > d_made THEN obj ELSE d_made
                /\ d_ids' = d_ids \cup {obj}
                /\ d_classes' = d_classes \cup {r.cls}
    /\ d_ops' = d_ops + 1
    /\ UNCHANGED <<d_factory, d_attr, d_imported, d_lastReg, d_regAfter, svars, avars, nvars, pvars>>

\* ServiceBackedClient.get_messages(limit) when the remote service lists
\* `remote` messages: `for msg in self.list_messages(): yield msg`.
AdapterGetMessages(lim, remote) == [i \in 1..remote |-> i]

\* list(client.get_messages(limit)) on a ServiceBackedClient.
DAdapterMessages ==
    /\ d_ops < MaxDIOps
    /\ "ServiceBackedClient" \in d_classes
    /\ \E lim \in Limits, remote \in 0..MaxRemote :
         d_last' = [DNoLast EXCEPT !.op = "adapter.get_messages",
                       !.cls = "ServiceBackedClient", !.limit = lim,
                       !.remote = remote,
                       !.count = Len(AdapterGetMessages(lim, remote))]
    /\ d_ops' = d_ops + 1
    /\ UNCHANGED <<d_factory, d_attr, d_imported, d_lastReg, d_regAfter, d_made, d_ids,
                   d_classes, svars, avars, nvars, pvars>>

NextDI == DRegister \/ DImportGmail \/ DImportAdapter \/ DGetClient
              \/ DDummyMessages \/ DRoute \/ DAdapterMessages

SpecDI == Init /\ [][NextDI]_vars

\* ================================================== the message normalizer
\* The parsing helpers of the three Gmail clients: "A" is
\* src/src/gmail_impl/gmail_client.py, "B" is
\* src/src/gmail_impl/src/gmail_impl/gmail_client.py, "async" is
\* src/src/gmail_impl/src/gmail_impl/client.py.  A string is the sequence of
\* its characters.
Impls == {"A", "B", "async"}

\* The characters of the header strings tried: two letters, the blank, the
\* separators the parser looks for and the double quote.
HeaderChars == {"a", "b", " ", ",", "<", ">", "\""}
WhiteSpace == {" "}

RECURSIVE StringsUpTo(_, _)
\* All strings over the characters cs of length at most n.
StringsUpTo(cs, n) ==
    IF n = 0 THEN {<<>>}
    ELSE LET shorter == StringsUpTo(cs, n - 1)
         IN  shorter \cup {Append(s, c) : s \in {t \in shorter : Len(t) = n - 1},
                                          c \in cs}

HeaderStrings == StringsUpTo(HeaderChars, MaxHeaderLen)

RECURSIVE LStrip(_, _)
\* str.lstrip(cs)
LStrip(s, cs) ==
    IF s # <<>> /\ Head(s) \in cs THEN LStrip(Tail(s), cs) ELSE s

RECURSIVE RStrip(_, _)
\* str.rstrip(cs)
RStrip(s, cs) ==
    IF s # <<>> /\ s[Len(s)] \in cs THEN RStrip(SubSeq(s, 1, Len(s) - 1), cs) ELSE s

\* str.strip(cs); str.strip() is Strip(s, WhiteSpace)
Strip(s, cs) == RStrip(LStrip(s, cs), cs)

\* c in s
Contains(s, c) == \E i \in 1..Len(s) : s[i] = c

\* Position of the first and of the last c in s, 0 when there is none.
FirstIndex(s, c) ==
    IF Contains(s, c) THEN CHOOSE i \in 1..Len(s) :
                              s[i] = c /\ \A j \in 1..(i - 1) : s[j] # c
    ELSE 0
LastIndex(s, c) ==
    IF Contains(s, c) THEN CHOOSE i \in 1..Len(s) :
                              s[i] = c /\ \A j \in (i + 1)..Len(s) : s[j] # c
    ELSE 0

RECURSIVE Split(_, _)
\* str.split(c): the segments between the separators, empty ones included.
Split(s, c) ==
    LET k == FirstIndex(s, c)
    IN  IF k = 0 THEN <<s>>
        ELSE <<SubSeq(s, 1, k - 1)>> \o Split(SubSeq(s, k + 1, Len(s)), c)

\* An optional string (EmailAddress.name, a body candidate): None, or a string.
StrNone == [isNone |-> TRUE, s |-> <<>>]
Str(s) == [isNone |-> FALSE, s |-> s]
EmailAddress(address, name) == [address |-> address, name |-> name]

\* The name an entry with angle brackets is given:
\*   A, async: EmailAddress(email, name)     B: name=name or None
BracketName(impl, name) ==
    IF impl = "B" /\ name = <<>> THEN StrNone ELSE Str(name)

\* _parse_email_addresses, one trimmed non-empty segment: the address and the
\* name it gives.
ParseSegment(impl, addr) ==
    IF Contains(addr, "<") /\ Contains(addr, ">")
    THEN LET k == LastIndex(addr, "<")                    \* rsplit("<", 1)
             name_part == SubSeq(addr, 1, k - 1)
             email_part == SubSeq(addr, k + 1, Len(addr))
             name == Strip(Strip(Strip(name_part, WhiteSpace), {"\""}), {"'"})
             email == Strip(RStrip(email_part, {">"}), WhiteSpace)
         IN  EmailAddress(email, BracketName(impl, name))
    ELSE EmailAddress(addr, StrNone)

\* Mutant of AppendAddress: an address already in the result is not added.
AppendAddress_dedup(result, e) ==
    IF \E i \in 1..Len(result) : result[i].address = e.address THEN result
    ELSE Append(result, e)

\* result.append(EmailAddress(email, name))
AppendAddress(result, e) == Append(result, e)

RECURSIVE ParseParts(_, _, _)
\* _parse_email_addresses: the loop `for part in raw.split(",")`.
ParseParts(impl, parts, result) ==
    IF parts = <<>> THEN result
    ELSE LET addr == Strip(Head(parts), WhiteSpace)
         IN  IF addr = <<>> THEN ParseParts(impl, Tail(parts), result)
             ELSE LET e == ParseSegment(impl, addr)
                  IN  IF e.address # <<>>
                      THEN ParseParts(impl, Tail(parts), AppendAddress(result, e))
                      ELSE ParseParts(impl, Tail(parts), result)

\* GmailClient._parse_email_addresses
ParseEmailAddresses(impl, raw) ==
    IF Strip(raw, WhiteSpace) = <<>> THEN <<>>
    ELSE ParseParts(impl, Split(raw, ","), <<>>)

UnknownAddress == <<"unknown@unknown.com">>

\* _parse_message / _parse_gmail_message: the sender of the Email made from a
\* message whose only From header has the value hdr (hasFrom), or that has no
\* From header.
\*   A, B: sender_name = None, then parsed[0].name
\*   async: sender_name = "", then sender.name or ""
Sender(impl, hasFrom, hdr) ==
    LET parsed == IF hasFrom THEN ParseEmailAddresses(impl, hdr) ELSE <<>>
        dflt == IF impl = "async" THEN Str(<<>>) ELSE StrNone
    IN  IF parsed = <<>> THEN EmailAddress(UnknownAddress, dflt)
        ELSE EmailAddress(parsed[1].address,
                 IF impl = "async" /\ parsed[1].name.isNone THEN Str(<<>>)
                 ELSE parsed[1].name)

\* ------------------------------------------------------------------- dates
\* The Date header values tried: empty, a valid RFC 2822 date, text that is
\* no date, a date with a day out of range, a date whose year does not fit
\* a machine integer.
DateStrings == {"", "Wed, 15 Mar 2023 10:30:00 +0000", "not a date",
                "32 Jan 2020 00:00:00 +0000",
                "1 Jan 99999999999999999999 00:00:00 +0000"}

DateTime(v) == [kind |-> "datetime", value |-> v, exc |-> "none"]
DateRaises(c) == [kind |-> "raises", value |-> "", exc |-> c]
\* datetime.fromtimestamp(0, tz=UTC)
Epoch == DateTime("1970-01-01T00:00:00+00:00")

\* email.utils.parsedate_to_datetime on those values: the datetime it returns
\* or the exception it raises (ValueError when the text is no date or a field
\* is out of range, OverflowError when a number does not fit the C integer
\* the datetime constructor takes).
ParsedateToDatetime(s) ==
    CASE s = "Wed, 15 Mar 2023 10:30:00 +0000" -> DateTime("2023-03-15T10:30:00+00:00")
      [] s = "1 Jan 99999999999999999999 00:00:00 +0000" -> DateRaises("OverflowError")
      [] OTHER -> DateRaises("ValueError")

\* The except clause of _parse_date:
\*   A: except Exception        B, async: except (ValueError, TypeError)
DateCatches(impl, c) ==
    IF impl = "A" THEN IsInstance(c, {"Exception"})
    ELSE IsInstance(c, {"ValueError", "TypeError"})

\* GmailClient._parse_date.  B and async return the epoch for the empty string
\* before they call the parser.
ParseDate(impl, s) ==
    IF impl # "A" /\ s = "" THEN Epoch
    ELSE LET r == ParsedateToDatetime(s)
         IN  IF r.kind = "datetime" THEN r
             ELSE IF DateCatches(impl, r.exc) THEN Epoch
             ELSE r

\* ------------------------------------------------------------------ bodies
\* A text of a decoded body.
TextHi == <<"h", "i">>
HtmlYo == <<"<", "b", ">", "y", "o", "<", "/", "b", ">">>

\* --- the codec: UTF-8 and base64url, on sequences of characters and bytes
\* The printable ASCII characters, from chr(32) to chr(126).
Ascii == <<" ", "!", "\"", "#", "$", "%", "&", "'", "(", ")", "*", "+", ",",
           "-", ".", "/", "0", "1", "2", "3", "4", "5", "6", "7", "8", "9",
           ":", ";", "<", "=", ">", "?", "@",
           "A", "B", "C", "D", "E", "F", "G", "H", "I", "J", "K", "L", "M",
           "N", "O", "P", "Q", "R", "S", "T", "U", "V", "W", "X", "Y", "Z",
           "[", "\\", "]", "^", "_", "U+96",
           "a", "b", "c", "d", "e", "f", "g", "h", "i", "j", "k", "l", "m",
           "n", "o", "p", "q", "r", "s", "t", "u", "v", "w", "x", "y", "z",
           "{", "|", "}", "~">>
\* chr(cp): the character of a code point; a character outside printable
\* ASCII, and the grave accent chr(96), is written "U+" and its code point.
Chr(cp) ==
    IF cp >= 32 /\ cp <= 126 THEN Ascii[cp - 31]
    ELSE "U+" \o ToString(cp)
\* The code points of the texts tried: h, i, e-acute (two bytes in UTF-8),
\* the euro sign (three bytes).
TextCodePoints == {104, 105, 233, 8364}
TextChars == {Chr(cp) : cp \in TextCodePoints}
\* ord, on the printable ASCII characters
AsciiOrd ==
    [c \in {Ascii[i] : i \in 1..Len(Ascii)} |->
        (CHOOSE i \in 1..Len(Ascii) : Ascii[i] = c) + 31]
IsAscii(c) == c \in DOMAIN AsciiOrd
\* ord(c), for printable ASCII and the characters of the texts tried
Ord(c) ==
    IF IsAscii(c) THEN AsciiOrd[c]
    ELSE CHOOSE cp \in TextCodePoints : Chr(cp) = c

\* str.encode("utf-8") of one character, as a sequence of bytes
Utf8Char(cp) ==
    IF cp < 128 THEN <<cp>>
    ELSE IF cp < 2048 THEN <<192 + (cp \div 64), 128 + (cp % 64)>>
    ELSE IF cp < 65536
    THEN <<224 + (cp \div 4096), 128 + ((cp \div 64) % 64), 128 + (cp % 64)>>
    ELSE <<240 + (cp \div 262144), 128 + ((cp \div 4096) % 64),
           128 + ((cp \div 64) % 64), 128 + (cp % 64)>>
RECURSIVE Utf8Encode(_)
\* text.encode("utf-8")
Utf8Encode(t) ==
    IF t = <<>> THEN <<>> ELSE Utf8Char(Ord(Head(t))) \o Utf8Encode(Tail(t))

IsCont(b) == b >= 128 /\ b <= 191
RECURSIVE Utf8Decode(_, _)
\* bytes.decode("utf-8"), strict: the text, or UnicodeDecodeError
Utf8Decode(bs, out) ==
    IF bs = <<>> THEN [exc |-> "none", text |-> out]
    ELSE LET b == bs[1]
             n == Len(bs)
             bad == [exc |-> "UnicodeDecodeError", text |-> <<>>]
         IN  IF b < 128
             THEN Utf8Decode(Tail(bs), Append(out, Chr(b)))
             ELSE IF b >= 194 /\ b <= 223
             THEN IF n >= 2 /\ IsCont(bs[2])
                  THEN Utf8Decode(SubSeq(bs, 3, n),
                                  Append(out, Chr((b - 192) * 64 + (bs[2] - 128))))
                  ELSE bad
             ELSE IF b >= 224 /\ b <= 239
             THEN IF /\ n >= 3 /\ IsCont(bs[2]) /\ IsCont(bs[3])
                     /\ (b = 224 => bs[2] >= 160)
                     /\ (b = 237 => bs[2] <= 159)
                  THEN Utf8Decode(SubSeq(bs, 4, n),
                                  Append(out, Chr((b - 224) * 4096
                                                    + (bs[2] - 128) * 64
                                                    + (bs[3] - 128))))
                  ELSE bad
             ELSE IF b >= 240 /\ b <= 244
             THEN IF /\ n >= 4 /\ IsCont(bs[2]) /\ IsCont(bs[3]) /\ IsCont(bs[4])
                     /\ (b = 240 => bs[2] >= 144)
                     /\ (b = 244 => bs[2] <= 143)
                  THEN Utf8Decode(SubSeq(bs, 5, n),
                                  Append(out, Chr((b - 240) * 262144
                                                    + (bs[2] - 128) * 4096
                                                    + (bs[3] - 128) * 64
                                                    + (bs[4] - 128))))
                  ELSE bad
             ELSE bad

\* The base64 alphabet, after urlsafe_b64decode has translated "-" to "+" and
\* "_" to "/".
B64Alphabet ==
    <<"A", "B", "C", "D", "E", "F", "G", "H", "I", "J", "K", "L", "M",
      "N", "O", "P", "Q", "R", "S", "T", "U", "V", "W", "X", "Y", "Z",
      "a", "b", "c", "d", "e", "f", "g", "h", "i", "j", "k", "l", "m",
      "n", "o", "p", "q", "r", "s", "t", "u", "v", "w", "x", "y", "z",
      "0", "1", "2", "3", "4", "5", "6", "7", "8", "9", "+", "/">>
\* The values of the characters of the alphabet.
B64Values ==
    [c \in {B64Alphabet[i] : i \in 1..Len(B64Alphabet)} |->
        (CHOOSE i \in 1..Len(B64Alphabet) : B64Alphabet[i] = c) - 1]
\* The value of a data character, -1 for a character outside the alphabet.
B64Value(c) ==
    LET d == IF c = "-" THEN "+" ELSE IF c = "_" THEN "/" ELSE c
    IN  IF d \in DOMAIN B64Values THEN B64Values[d] ELSE -1
\* The character base64.urlsafe_b64encode writes for a value.
B64UrlChar(v) ==
    LET c == B64Alphabet[v + 1]
    IN  IF c = "+" THEN "-" ELSE IF c = "/" THEN "_" ELSE c

RECURSIVE B64UrlEncode(_)
\* base64.urlsafe_b64encode(bytes), with its padding
B64UrlEncode(bs) ==
    IF bs = <<>> THEN <<>>
    ELSE IF Len(bs) = 1
    THEN <<B64UrlChar(bs[1] \div 4), B64UrlChar((bs[1] % 4) * 16), "=", "=">>
    ELSE IF Len(bs) = 2
    THEN <<B64UrlChar(bs[1] \div 4),
           B64UrlChar((bs[1] % 4) * 16 + (bs[2] \div 16)),
           B64UrlChar((bs[2] % 16) * 4), "=">>
    ELSE <<B64UrlChar(bs[1] \div 4),
           B64UrlChar((bs[1] % 4) * 16 + (bs[2] \div 16)),
           B64UrlChar((bs[2] % 16) * 4 + (bs[3] \div 64)),
           B64UrlChar(bs[3] % 64)>> \o B64UrlEncode(SubSeq(bs, 4, Len(bs)))
\* The body data of a text: its base64url encoding, as the encoder pads it or
\* with the padding removed, as the provider sends it.
EncodeText(t, padded) ==
    LET e == B64UrlEncode(Utf8Encode(t))
    IN  IF padded THEN e ELSE RStrip(e, {"="})

RECURSIVE A2bBase64(_, _, _, _, _)
\* binascii.a2b_base64 (not strict) on the translated characters: characters
\* outside the alphabet are passed over, a complete padding ends the
\* decoding, an incomplete last group raises binascii.Error.
A2bBase64(s, quad, left, pads, out) ==
    IF s = <<>>
    THEN IF quad = 0 THEN [exc |-> "none", bytes |-> out]
         ELSE [exc |-> "binascii.Error", bytes |-> <<>>]
    ELSE LET c == Head(s)
             v == B64Value(c)
         IN  IF c = "="
             THEN IF quad >= 2 /\ quad + pads + 1 >= 4
                  THEN [exc |-> "none", bytes |-> out]
                  ELSE A2bBase64(Tail(s), quad, left,
                                 IF quad >= 2 THEN pads + 1 ELSE pads, out)
             ELSE IF v < 0 THEN A2bBase64(Tail(s), quad, left, pads, out)
             ELSE IF quad = 0 THEN A2bBase64(Tail(s), 1, v, 0, out)
             ELSE IF quad = 1
             THEN A2bBase64(Tail(s), 2, (v % 16), 0, Append(out, left * 4 + (v \div 16)))
             ELSE IF quad = 2
             THEN A2bBase64(Tail(s), 3, (v % 4), 0, Append(out, left * 16 + (v \div 4)))
             ELSE A2bBase64(Tail(s), 0, 0, 0, Append(out, left * 64 + v))

\* base64.urlsafe_b64decode(data + "==").decode("utf-8"): the text, or the
\* exception raised (ValueError for a data string with a character that is
\* not ASCII).
B64Decode(data) ==
    IF \E i \in 1..Len(data) : ~IsAscii(data[i])
    THEN [exc |-> "ValueError", text |-> <<>>]
    ELSE LET r == A2bBase64(data \o <<"=", "=">>, 0, 0, 0, <<>>)
         IN  IF r.exc # "none" THEN [exc |-> r.exc, text |-> <<>>]
             ELSE Utf8Decode(r.bytes, <<>>)

\* The body data tried, as the provider sends it (base64url without
\* padding): none, the text "hi", the HTML "<b>yo</b>", data that decodes to
\* the empty text, data of an impossible length.
DataSamples ==
    {<<>>, <<"a", "G", "k">>,
     <<"P", "G", "I", "-", "e", "W", "8", "8", "L", "2", "I", "-">>,
     <<"=">>, <<"A">>}

\* Mutant of DecodeCatches: only UnicodeDecodeError is caught.
DecodeCatches_unicodeOnly(impl, c) == IsInstance(c, {"UnicodeDecodeError"})

\* The except clause of _decode_body / _decode_body_data
\*   A: except Exception          B, async: except (ValueError, UnicodeDecodeError)
DecodeCatches(impl, c) ==
    IF impl = "A" THEN IsInstance(c, {"Exception"})
    ELSE IsInstance(c, {"ValueError", "UnicodeDecodeError"})

\* GmailClient._decode_body / _decode_body_data: what it returns, or the
\* exception that leaves it.
\*   A: try: return b64decode(data + "==").decode("utf-8"); except: return ""
\*   B, async: if not data: return ""; try: ...; except ...: return None
DecodeOutcome(impl, data) ==
    IF impl # "A" /\ data = <<>> THEN [exc |-> "none", result |-> Str(<<>>)]
    ELSE LET r == B64Decode(data)
         IN  IF r.exc = "none" THEN [exc |-> "none", result |-> Str(r.text)]
             ELSE IF DecodeCatches(impl, r.exc)
             THEN [exc |-> "none",
                   result |-> IF impl = "A" THEN Str(<<>>) ELSE StrNone]
             ELSE [exc |-> r.exc, result |-> StrNone]

\* What _decode_body hands to _extract_body.
DecodeBody(impl, data) == DecodeOutcome(impl, data).result

RECURSIVE RemoveTags(_)
\* re.sub(r"<[^>]+>", "", html)
RemoveTags(s) ==
    LET i == FirstIndex(s, "<")
    IN  IF i = 0 THEN s
        ELSE LET rest == SubSeq(s, i + 1, Len(s))
                 j == FirstIndex(rest, ">")
             IN  IF j = 0 THEN s
                 ELSE IF j = 1 THEN SubSeq(s, 1, i) \o RemoveTags(rest)
                 ELSE SubSeq(s, 1, i - 1) \o RemoveTags(SubSeq(rest, j + 1, Len(rest)))

\* s starts with the characters of p
StartsWith(s, p) == Len(s) >= Len(p) /\ SubSeq(s, 1, Len(p)) = p

RECURSIVE Replace(_, _, _)
\* str.replace(pat, repl)
Replace(s, pat, repl) ==
    IF s = <<>> THEN <<>>
    ELSE IF StartsWith(s, pat)
    THEN repl \o Replace(SubSeq(s, Len(pat) + 1, Len(s)), pat, repl)
    ELSE <<Head(s)>> \o Replace(Tail(s), pat, repl)

RECURSIVE CollapseSpace(_)
\* re.sub(r"\s+", " ", text)
CollapseSpace(s) ==
    IF s = <<>> THEN <<>>
    ELSE IF Head(s) \in WhiteSpace
    THEN <<" ">> \o CollapseSpace(LStrip(s, WhiteSpace))
    ELSE <<Head(s)>> \o CollapseSpace(Tail(s))

\* Mutant of HtmlToText: the tags are not removed.
HtmlToText_keepsTags(html) ==
    LET t1 == Replace(html, <<"&", "n", "b", "s", "p", ";">>, <<" ">>)
        t2 == Replace(t1, <<"&", "l", "t", ";">>, <<"<">>)
        t3 == Replace(t2, <<"&", "g", "t", ";">>, <<">">>)
        t4 == Replace(t3, <<"&", "a", "m", "p", ";">>, <<"&">>)
        t5 == Replace(t4, <<"&", "q", "u", "o", "t", ";">>, <<"\"">>)
        t6 == Replace(t5, <<"&", "#", "3", "9", ";">>, <<"'">>)
    IN  Strip(CollapseSpace(t6), WhiteSpace)

\* GmailClient._html_to_text
HtmlToText(html) ==
    LET t0 == RemoveTags(html)
        t1 == Replace(t0, <<"&", "n", "b", "s", "p", ";">>, <<" ">>)
        t2 == Replace(t1, <<"&", "l", "t", ";">>, <<"<">>)
        t3 == Replace(t2, <<"&", "g", "t", ";">>, <<">">>)
        t4 == Replace(t3, <<"&", "a", "m", "p", ";">>, <<"&">>)
        t5 == Replace(t4, <<"&", "q", "u", "o", "t", ";">>, <<"\"">>)
        t6 == Replace(t5, <<"&", "#", "3", "9", ";">>, <<"'">>)
    IN  Strip(CollapseSpace(t6), WhiteSpace)

\* A node of the payload tree.
Part(m, d, ps) == [mimeType |-> m, data |-> d, parts |-> ps]
IsMultipart(m) == m \in {"multipart/alternative", "multipart/mixed"}

Leaves ==
    {Part(m, d, <<>>) : m \in {"text/plain", "text/html"}, d \in DataSamples}
        \cup {Part("image/png", <<"a", "G", "k">>, <<>>)}
\* What a multipart node holds: leaves, and multipart nodes around one leaf.
Children == Leaves \cup {Part("multipart/alternative", <<>>, <<l>>) : l \in Leaves}
PayloadTrees ==
    Leaves \cup {Part("multipart/mixed", <<>>, ps) : ps \in StringsUpTo(Children, MaxParts)}

NoCandidates == [text |-> StrNone, html |-> StrNone]

\* Mutant of AssignCandidate: a candidate once found is kept.
AssignCandidate_keepFirst(old, new) == IF old.isNone THEN new ELSE old

\* text = self._decode_body(data): the assignment to a nonlocal candidate
\* replaces whatever an earlier part left there.
AssignCandidate(old, new) == new

RECURSIVE Walk(_, _, _)
RECURSIVE WalkParts(_, _, _)
\* _extract_body: the nested function walk / extract_parts, with the
\* candidates (text, html) it has assigned so far.
Walk(impl, part, cand) ==
    IF part.mimeType = "text/plain"
    THEN IF part.data # <<>>
         THEN [cand EXCEPT !.text = AssignCandidate(cand.text, DecodeBody(impl, part.data))]
         ELSE cand
    ELSE IF part.mimeType = "text/html"
    THEN IF part.data # <<>>
         THEN [cand EXCEPT !.html = AssignCandidate(cand.html, DecodeBody(impl, part.data))]
         ELSE cand
    ELSE IF IsMultipart(part.mimeType) THEN WalkParts(impl, part.parts, cand)
    ELSE cand
\* for sub in part.get("parts", []): walk(sub)
WalkParts(impl, parts, cand) ==
    IF parts = <<>> THEN cand
    ELSE WalkParts(impl, Tail(parts), Walk(impl, Head(parts), cand))

\* `if text:` on an optional string
Truthy(o) == ~o.isNone /\ o.s # <<>>

\* Mutant of SelectBody: the HTML candidate is preferred.
SelectBody_htmlFirst(text, html) ==
    IF Truthy(html) THEN Str(HtmlToText(html.s))
    ELSE IF Truthy(text) THEN text
    ELSE Str(<<>>)

\* _extract_body after the walk: if text: return text; if html: return
\* self._html_to_text(html); return "".
SelectBody(text, html) ==
    IF Truthy(text) THEN text
    ELSE IF Truthy(html) THEN Str(HtmlToText(html.s))
    ELSE Str(<<>>)

\* GmailClient._extract_body
ExtractBody(impl, payload) ==
    LET cand == Walk(impl, payload, NoCandidates)
    IN  SelectBody(cand.text, cand.html)

\* What the HTML bodies tried are made of: the angle brackets, a letter, a
\* space, the entities of the angle brackets and of the ampersand, and the
\* tail of an entity.
HtmlPieces ==
    {<<"<">>, <<">">>, <<"b">>, <<" ">>, <<"&", "l", "t", ";">>,
     <<"&", "g", "t", ";">>, <<"&", "a", "m", "p", ";">>, <<"l", "t", ";">>}
RECURSIVE Flatten(_)
Flatten(ss) == IF ss = <<>> THEN <<>> ELSE Head(ss) \o Flatten(Tail(ss))
HtmlStrings == {Flatten(ps) : ps \in StringsUpTo(HtmlPieces, MaxHtmlPieces)}
\* The payload of a message that has an HTML body only.
HtmlPayload(html) == Part("text/html", EncodeText(html, FALSE), <<>>)

\* ------------------------------------------------------------ the Email
\* body_text and body_html of an Email: None, or a string of letters, tags
\* and blanks.
BodyStrings ==
    {StrNone} \cup {Str(b) : b \in StringsUpTo({"a", "<", " "}, MaxBodyLen)}
\* Email.has_text_content: body_text is not None and len(body_text.strip()) > 0
HasTextContent(email) ==
    ~email.body_text.isNone /\ Len(Strip(email.body_text.s, WhiteSpace)) > 0
\* Email.has_html_content
HasHtmlContent(email) ==
    ~email.body_html.isNone /\ Len(Strip(email.body_html.s, WhiteSpace)) > 0
\* Email.has_content
HasContent(email) == HasTextContent(email) \/ HasHtmlContent(email)
\* `x or ""` on an optional string
OrEmpty(o) == IF Truthy(o) THEN o.s ELSE <<>>

\* Mutant of GetContent: the HTML body is preferred.
GetContent_htmlFirst(email) ==
    IF HasHtmlContent(email) THEN OrEmpty(email.body_html)
    ELSE IF HasTextContent(email) THEN OrEmpty(email.body_text)
    ELSE <<>>

\* Email.get_content
GetContent(email) ==
    IF HasTextContent(email) THEN OrEmpty(email.body_text)
    ELSE IF HasHtmlContent(email) THEN OrEmpty(email.body_html)
    ELSE <<>>

\* The texts that are encoded and decoded.
Texts == StringsUpTo(TextChars, MaxTextLen)
\* The characters of the data strings that are not built by encoding: of the
\* alphabet, the padding, outside the alphabet, not ASCII.
DataChars == {"a", "G", "k", "_", "w", "=", "!", Chr(233)}
\* The body data _decode_body is applied to: the encodings of the texts,
\* padded and not, and every short string of data characters.
DataStrings ==
    {EncodeText(t, padded) : t \in Texts, padded \in BOOLEAN}
        \cup StringsUpTo(DataChars, MaxDataLen)

\* ------------------------------------------------- applying the helpers
\* A helper is about to be applied to a header value, a Date value or a
\* message payload.
InitNorm ==
    /\ InitSync /\ variant = "A" /\ InitAsyncIdle /\ InitDI /\ InitParseIdle
    /\ n_impl = "none"
    /\ n_fn = "none"
    /\ n_out = <<>>
    /\ \/ \E h \in HeaderStrings : n_in = [kind |-> "header", v |-> h]
       \/ \E d \in DateStrings : n_in = [kind |-> "date", v |-> d]
       \/ \E p \in PayloadTrees : n_in = [kind |-> "payload", v |-> p]
       \/ \E h \in HtmlStrings : n_in = [kind |-> "payload", v |-> HtmlPayload(h)]
       \/ \E d \in DataStrings : n_in = [kind |-> "data", v |-> d]
       \/ \E t \in BodyStrings, h \in BodyStrings :
             n_in = [kind |-> "email", v |-> [body_text |-> t, body_html |-> h]]

\* self._parse_email_addresses(value)
NParseAddresses ==
    /\ n_fn = "none" /\ n_in.kind = "header"
    /\ \E impl \in Impls :
         /\ n_impl' = impl
         /\ n_out' = ParseEmailAddresses(impl, n_in.v)
    /\ n_fn' = "parse_email_addresses"
    /\ UNCHANGED <<n_in, svars, avars, dvars, pvars>>

\* The sender of the Email that _parse_message / _parse_gmail_message makes
\* from a message with this From header, or with none.
NParseSender ==
    /\ n_fn = "none" /\ n_in.kind = "header"
    /\ \E impl \in Impls, hasFrom \in BOOLEAN :
         /\ n_impl' = impl
         /\ n_out' = [hasFrom |-> hasFrom, sender |-> Sender(impl, hasFrom, n_in.v)]
    /\ n_fn' = "sender"
    /\ UNCHANGED <<n_in, svars, avars, dvars, pvars>>

\* self._parse_date(date_str)
NParseDate ==
    /\ n_fn = "none" /\ n_in.kind = "date"
    /\ \E impl \in Impls :
         /\ n_impl' = impl
         /\ n_out' = ParseDate(impl, n_in.v)
    /\ n_fn' = "parse_date"
    /\ UNCHANGED <<n_in, svars, avars, dvars, pvars>>

\* self._extract_body(payload), of the two synchronous clients
NExtractBody ==
    /\ n_fn = "none" /\ n_in.kind = "payload"
    /\ \E impl \in {"A", "B"} :
         /\ n_impl' = impl
         /\ n_out' = [cand |-> Walk(impl, n_in.v, NoCandidates),
                      result |-> ExtractBody(impl, n_in.v)]
    /\ n_fn' = "extract_body"
    /\ UNCHANGED <<n_in, svars, avars, dvars, pvars>>

\* self._extract_message_content(payload), of the asynchronous client
NExtractContent ==
    /\ n_fn = "none" /\ n_in.kind = "payload"
    /\ n_impl' = "async"
    /\ n_out' = [cand |-> Walk("async", n_in.v, NoCandidates)]
    /\ n_fn' = "extract_message_content"
    /\ UNCHANGED <<n_in, svars, avars, dvars, pvars>>

\* self._decode_body(data) / self._decode_body_data(data)
NDecodeBody ==
    /\ n_fn = "none" /\ n_in.kind = "data"
    /\ \E impl \in Impls :
         /\ n_impl' = impl
         /\ n_out' = DecodeOutcome(impl, n_in.v)
    /\ n_fn' = "decode_body"
    /\ UNCHANGED <<n_in, svars, avars, dvars, pvars>>

\* email.has_content and email.get_content() of an Email with these bodies
NGetContent ==
    /\ n_fn = "none" /\ n_in.kind = "email"
    /\ n_impl' = "email_api"
    /\ n_out' = [has_content |-> HasContent(n_in.v), content |-> GetContent(n_in.v)]
    /\ n_fn' = "get_content"
    /\ UNCHANGED <<n_in, svars, avars, dvars, pvars>>

NextNorm ==
    \/ NParseAddresses \/ NParseSender \/ NParseDate \/ NExtractBody
    \/ NExtractContent \/ NDecodeBody \/ NGetContent

SpecNorm == InitNorm /\ [][NextNorm]_vars

\* =========================================== parsing a message, step by step
\* GmailClient._parse_message (A, B) and _parse_gmail_message (async), one
\* header and one node of the payload tree at a time, so that calls made on
\* one client can follow one another and run side by side.

\* A header of the payload: its name in lower case, its value (None when the
\* provider sent null) and, for a Date header, the value as a whole.
Header(name, value, date) == [name |-> name, value |-> value, date |-> date]
HeaderSamples ==
    {Header("subject", Str(<<"s">>), ""),
     Header("from", Str(<<"b">>), ""),
     Header("to", Str(<<"a">>), ""),
     Header("to", Str(<<"b", ",", "a">>), ""),
     Header("to", StrNone, ""),
     Header("date", Str(<<>>), "Wed, 15 Mar 2023 10:30:00 +0000"),
     Header("date", Str(<<>>), "1 Jan 99999999999999999999 00:00:00 +0000")}

\* A message as messages().get() returns it: its "id" (None when the key is
\* missing), whether payload["headers"] is null, the headers, and the
\* payload tree.
Message(id, hdrNull, headers, payload) ==
    [id |-> id, hdrNull |-> hdrNull, headers |-> headers, payload |-> payload]
MessageIds == {StrNone, Str(<<>>), Str(<<"m">>)}
PlainHi == Part("text/plain", <<"a", "G", "k">>, <<>>)
PlainUndecodable == Part("text/plain", <<"A">>, <<>>)
HtmlYoPart ==
    Part("text/html",
         <<"P", "G", "I", "-", "e", "W", "8", "8", "L", "2", "I", "-">>, <<>>)
\* The payload trees of the messages: no body at all, a text body, a text and
\* an HTML alternative, an HTML body followed by text that does not decode.
MessagePayloads ==
    {Part("", <<>>, <<>>), PlainHi,
     Part("multipart/alternative", <<>>, <<PlainHi, HtmlYoPart>>),
     Part("multipart/mixed", <<>>, <<HtmlYoPart, PlainUndecodable>>)}
Messages ==
    {Message(i, FALSE, hs, pl) : i \in MessageIds,
                                 hs \in StringsUpTo(HeaderSamples, MaxHeaders),
                                 pl \in MessagePayloads}
        \cup {Message(i, TRUE, <<>>, Part("", <<>>, <<>>)) : i \in MessageIds}
\* The messages parsed side by side.
SmallMessages ==
    {Message(Str(<<"m">>), FALSE,
             <<Header("to", Str(<<"a">>), ""), Header("to", Str(<<"b", ",", "a">>), "")>>,
             Part("multipart/alternative", <<>>, <<PlainHi, HtmlYoPart>>)),
     Message(Str(<<"m">>), FALSE, <<Header("from", Str(<<"b">>), "")>>,
             Part("multipart/mixed", <<>>, <<HtmlYoPart, PlainUndecodable>>)),
     Message(Str(<<"m">>), FALSE, <<Header("subject", Str(<<"s">>), "")>>, HtmlYoPart)}
Pool(pool) == IF pool = "small" THEN SmallMessages ELSE Messages
\* The calls that can be in progress at one time.
Slots(pool) == IF pool = "small" THEN {1, 2} ELSE {1}

\* Email(id=..., subject=..., sender=..., recipients=..., date_sent=ts,
\* date_received=ts, body=... | body_text=..., body_html=...)
EmailRecord(id, subject, sender, recipients, ts, body, body_text, body_html) ==
    [id |-> id, subject |-> subject, sender |-> sender, recipients |-> recipients,
     date_sent |-> ts, date_received |-> ts,
     body |-> body, body_text |-> body_text, body_html |-> body_html]
\* The Email that stands for an unusable message (variant A).
SentinelEmail ==
    EmailRecord(<<>>, Str(<<>>), EmailAddress(UnknownAddress, StrNone), <<>>,
                Epoch, Str(<<>>), StrNone, StrNone)
NoResult == [kind |-> "none", exc |-> "none", email |-> SentinelEmail]
Returned(email) == [kind |-> "email", exc |-> "none", email |-> email]
\* The call raised; no Email is returned (the field only keeps the shape).
Raised(c) == [kind |-> "raises", exc |-> c, email |-> SentinelEmail]

\* A call that has not started.
IdleCall ==
    [pc |-> "idle", msg |-> Message(StrNone, FALSE, <<>>, Part("", <<>>, <<>>)),
     rest |-> <<>>, subject |-> Str(<<>>), sender_email |-> UnknownAddress,
     sender_name |-> StrNone, recipients |-> <<>>, date_str |-> "", ts |-> Epoch,
     stack |-> <<>>, cand |-> NoCandidates, result |-> NoResult]

\* Mutant of ParseCatches: only the KeyError of the missing id is caught.
ParseCatches_keyErrorOnly(impl, c) == impl = "A" /\ IsInstance(c, {"KeyError"})

\* The try of _parse_message: A wraps the whole body in `except Exception`,
\* B and async have no try.
ParseCatches(impl, c) == impl = "A" /\ IsInstance(c, {"Exception"})

\* The call ends: it returns an Email or raises.
Finished(call, result) == [call EXCEPT !.pc = "done", !.result = result]
\* Exception c is raised in the body of the call.
Fail(impl, call, c) ==
    IF ParseCatches(impl, c) THEN Finished(call, Returned(SentinelEmail))
    ELSE Finished(call, Raised(c))

\* Mutant of StartCandidates: text and html are kept from the call before.
StartCandidates_kept(prev) == prev

\* _extract_body: `text, html = None, None`, the locals of this call
StartCandidates(prev) == NoCandidates

\* Mutant of ExtendRecipients: only the first To header is used.
ExtendRecipients_firstOnly(recipients, parsed) ==
    IF recipients = <<>> THEN parsed ELSE recipients

\* recipients.extend(self._parse_email_addresses(val))
ExtendRecipients(recipients, parsed) == recipients \o parsed

\* The call starts: the locals before the header loop; A reads the id first
\* and raises KeyError when it is missing or empty.
StartCall(impl, msg, prev) ==
    LET fresh == [pc |-> "headers", msg |-> msg, rest |-> msg.headers,
                  subject |-> Str(<<>>), sender_email |-> UnknownAddress,
                  sender_name |-> IF impl = "async" THEN Str(<<>>) ELSE StrNone,
                  recipients |-> <<>>, date_str |-> "", ts |-> Epoch,
                  stack |-> <<>>, cand |-> StartCandidates(prev.cand),
                  result |-> NoResult]
    IN  IF impl = "A" /\ ~Truthy(msg.id) THEN Fail(impl, fresh, "KeyError")
        ELSE fresh

\* One iteration of `for h in headers`, or, after the last header,
\* `ts = self._parse_date(date_str)` and the start of the tree walk.
HeaderStep(impl, call) ==
    IF call.msg.hdrNull THEN Fail(impl, call, "TypeError")
    ELSE IF call.rest = <<>>
    THEN LET ts == ParseDate(impl, call.date_str)
         IN  IF ts.kind = "raises" THEN Fail(impl, call, ts.exc)
             ELSE [call EXCEPT !.pc = "walk", !.ts = ts,
                               !.stack = <<call.msg.payload>>]
    ELSE LET h == Head(call.rest)
             next == [call EXCEPT !.rest = Tail(call.rest)]
         IN  IF h.name = "subject" THEN [next EXCEPT !.subject = h.value]
             ELSE IF h.name \in {"from", "to"} /\ h.value.isNone
             THEN Fail(impl, call, "AttributeError")
             ELSE IF h.name = "from"
             THEN LET parsed == ParseEmailAddresses(impl, h.value.s)
                  IN  IF parsed = <<>> THEN next
                      ELSE [next EXCEPT
                              !.sender_email = parsed[1].address,
                              !.sender_name =
                                  IF impl = "async" /\ ~Truthy(parsed[1].name)
                                  THEN Str(<<>>) ELSE parsed[1].name]
             ELSE IF h.name = "to"
             THEN [next EXCEPT !.recipients =
                      ExtendRecipients(call.recipients,
                                       ParseEmailAddresses(impl, h.value.s))]
             ELSE IF h.name = "date" THEN [next EXCEPT !.date_str = h.date]
             ELSE next

\* The Email the call returns after the walk.  B and async read
\* message["id"] here and raise KeyError when the key is missing.
FinishCall(impl, call) ==
    LET sender == EmailAddress(call.sender_email, call.sender_name)
        id == IF call.msg.id.isNone THEN <<>> ELSE call.msg.id.s
    IN  IF impl # "A" /\ call.msg.id.isNone THEN Fail(impl, call, "KeyError")
        ELSE IF impl = "async"
        THEN Finished(call, Returned(
                 EmailRecord(id, call.subject, sender, call.recipients, call.ts,
                             StrNone, call.cand.text, call.cand.html)))
        ELSE Finished(call, Returned(
                 EmailRecord(id, call.subject, sender, call.recipients, call.ts,
                             SelectBody(call.cand.text, call.cand.html),
                             StrNone, StrNone)))

\* One call of walk / extract_parts on the next node, in depth-first
\* pre-order: a multipart node hands its parts over, any other node is
\* looked at; after the last node the Email is made.
WalkStep(impl, call) ==
    IF call.stack = <<>> THEN FinishCall(impl, call)
    ELSE LET part == Head(call.stack)
         IN  IF IsMultipart(part.mimeType)
             THEN [call EXCEPT !.stack = part.parts \o Tail(call.stack)]
             ELSE [call EXCEPT !.stack = Tail(call.stack),
                               !.cand = Walk(impl, part, call.cand)]

StepCall(impl, call) ==
    IF call.pc = "headers" THEN HeaderStep(impl, call) ELSE WalkStep(impl, call)

\* One client; its _parse_message is about to be called, on any message or
\* on a few messages side by side.
InitParse ==
    /\ InitSync /\ variant = "A" /\ InitAsyncIdle /\ InitDI /\ InitNormIdle
    /\ p_impl \in Impls
    /\ p_pool \in {"full", "small"}
    /\ p_calls = [c \in {1, 2} |-> IdleCall]
    /\ p_parses = 0

\* self._parse_message(message) is called: on any message, or on one of a
\* few messages after an earlier call has returned or while another call is
\* in progress.
PStart ==
    /\ p_parses < MaxParses
    /\ \E c \in Slots(p_pool) :
         /\ \/ p_calls[c].pc = "idle"
            \/ p_calls[c].pc = "done" /\ p_pool = "small"
         /\ \E m \in Pool(p_pool) :
              p_calls' = [p_calls EXCEPT ![c] = StartCall(p_impl, m, p_calls[c])]
    /\ p_parses' = p_parses + 1
    /\ UNCHANGED <<p_impl, p_pool, svars, avars, dvars, nvars>>

\* A call works on its next header.
PHeader ==
    /\ \E c \in Slots(p_pool) :
         /\ p_calls[c].pc = "headers"
         /\ p_calls' = [p_calls EXCEPT ![c] = HeaderStep(p_impl, p_calls[c])]
    /\ UNCHANGED <<p_impl, p_pool, p_parses, svars, avars, dvars, nvars>>

\* A call works on the next node of its payload tree, or returns.
PWalk ==
    /\ \E c \in Slots(p_pool) :
         /\ p_calls[c].pc = "walk"
         /\ p_calls' = [p_calls EXCEPT ![c] = WalkStep(p_impl, p_calls[c])]
    /\ UNCHANGED <<p_impl, p_pool, p_parses, svars, avars, dvars, nvars>>

NextParse == PStart \/ PHeader \/ PWalk

SpecParse == InitParse /\ [][NextParse]_vars

\* ===================================================================== claims
YieldedIds == [i \in 1..Len(yielded) |-> yielded[i].id]

RECURSIVE IsSubseq(_, _)
\* s is t with some of its elements removed
IsSubseq(s, t) ==
    IF s = <<>> THEN TRUE
    ELSE IF t = <<>> THEN FALSE
    ELSE IF Head(s) = Head(t) THEN IsSubseq(Tail(s), Tail(t))
    ELSE IsSubseq(s, Tail(t))

IsWellFormedEntry(f) == f.class = "wellformed"
WellFormedIds ==
    LET w == SelectSeq(fetched, IsWellFormedEntry)
    IN  [i \in 1..Len(w) |-> w[i].id]

\* C1: get_messages(limit=n) yields at most n Emails, for every n >= 0,
\* whatever the number of pages, their sizes and the skipped messages.
C1_AtMostLimit == limit # None => Len(yielded) <= limit[1]

\* C1 witness: the limit is met on the second page, after a skipped message,
\* with more messages listed than the limit allows.
C1_Witness ==
    /\ limit # None /\ limit[1] >= 1
    /\ Len(yielded) = limit[1]
    /\ Len(listed) > limit[1]
    /\ listCalls >= 2
    /\ \E i \in 1..Len(fetched) : fetched[i].class = "unusable"

\* C2: once `limit` Emails have been yielded, the call issues no further list
\* request and no further per-message get request; with limit=0 it yields
\* nothing and issues no list or get request at all.
C2_NoRequestAfterLimit ==
    /\ [](limit = Some(0) => yielded = <<>> /\ listCalls = 0 /\ getCalls = 0)
    /\ [][(limit # None /\ Len(yielded) >= limit[1] /\ callNo' = callNo)
            => (listCalls' = listCalls /\ getCalls' = getCalls)]_vars

\* C2 witness: the call ended at its limit although the last list response
\* carried a nextPageToken.
C2_Witness ==
    /\ pc = "done"
    /\ limit # None /\ limit[1] >= 1
    /\ Len(yielded) = limit[1]
    /\ next_token # None

\* C3: the yielded ids are, in order, a subsequence of the concatenation of
\* the listed pages.
C3_ListingOrder == IsSubseq(YieldedIds, listed)

\* C3 witness: Emails of two pages were yielded and a message between them
\* was skipped.
C3_Witness ==
    /\ Len(yielded) >= 2
    /\ yielded[1].id[1] = 1
    /\ yielded[Len(yielded)].id[1] = 2
    /\ Len(fetched) > Len(yielded)

\* C4: a message whose parse fails is omitted and every other listed message
\* that parses is still yielded, up to the limit; a parse failure never
\* aborts the batch.
C4_SkipAndContinue ==
    /\ YieldedIds = WellFormedIds
    /\ pc = "done" => (Len(fetched) = Len(listed) \/ LimitReached(limit, Len(yielded)))
    /\ ~(pc = "raised" /\ last.op = "get" /\ last.e = NoExc)

\* C5: every yielded Email has a non-empty id.
C5_NonEmptyId == \A i \in 1..Len(yielded) : yielded[i].id # EmptyStr

\* The class a failed request must reach the caller as.
Translated(e) ==
    IF e.cls = "HttpError" /\ e.status \in {HTTP_UNAUTHORIZED, HTTP_FORBIDDEN}
    THEN "RuntimeError"
    ELSE "ConnectionError"

\* C6: a failed list request makes the iterator raise and stop, with no
\* retry: RuntimeError for HTTP 401 and 403, ConnectionError for every other
\* status and for every non-HTTP exception.
C6_ListFailure ==
    (last.op = "list" /\ last.e # NoExc)
        => (pc = "raised" /\ exc = Translated(last.e))

\* C6 witness: the second list request fails with 403 after Emails of the
\* first page were yielded.
C6_Witness ==
    /\ pc = "raised"
    /\ last.op = "list" /\ last.e = Exc("HttpError", HTTP_FORBIDDEN)
    /\ exc = "RuntimeError"
    /\ listCalls = 2 /\ Len(yielded) >= 1

\* C7: every failure of get_messages, authentication and connection included,
\* reaches the caller as ConnectionError or RuntimeError.
C7_OnlyDocumentedErrors ==
    pc = "raised" => exc \in {"ConnectionError", "RuntimeError"}

\* C8: an HTTP failure of a per-message get is translated and raised
\* (RuntimeError for 401/403, ConnectionError otherwise); a failed get never
\* makes the message be skipped.
C8_GetFailureRaised ==
    (last.op = "get" /\ last.e # NoExc)
        => (pc = "raised" /\ exc = Translated(last.e))

\* C9: list_inbox_messages and get_email_content on an unconnected async
\* client raise EmailConnectionError with error_code CLIENT_NOT_CONNECTED and
\* issue no provider request.
C9_NotConnected ==
    [][(a_service = "None" /\ a_ops' # a_ops /\ a_last'.op \in {"list", "get"})
         => (/\ a_last'.out = "EmailConnectionError"
             /\ a_last'.code = "CLIENT_NOT_CONNECTED"
             /\ a_reqs' = a_reqs)]_vars

\* C9 witness: a client that was connected, made a request and was then
\* closed refuses get_email_content.
C9_Witness ==
    /\ a_last.op = "get" /\ a_last.code = "CLIENT_NOT_CONNECTED"
    /\ a_service = "None"
    /\ a_reqs >= 1

\* C10: close() and __aexit__ (after a normal or a failed body) leave the
\* client unconnected; an unconnected client becomes connected only by an
\* __aenter__ that succeeds, and stays unconnected when __aenter__ fails.
C10_Lifecycle ==
    /\ [][(a_ops' # a_ops /\ a_last'.op \in {"close", "aexit"})
            => a_service' = "None"]_vars
    /\ [][(a_service = "None" /\ a_service' # "None")
            => (a_last'.op = "aenter" /\ a_last'.out = "ok")]_vars
    /\ [][(a_service = "None" /\ a_ops' # a_ops /\ a_last'.op = "aenter"
              /\ a_last'.out # "ok")
            => a_service' = "None"]_vars

\* C10 witness: a connected client made a request, the context body raised
\* and __aexit__ ran: the client is unconnected.
C10_Witness ==
    /\ a_last.op = "aexit" /\ a_last.out = "body raised"
    /\ a_service = "None"
    /\ ~a_inctx
    /\ a_reqs >= 1

\* C11: get_email_content on a connected client raises EmailNotFoundError
\* with error_code EMAIL_NOT_FOUND whenever the provider answers the get with
\* HTTP 404, and returns no Email then.
C11_NotFound ==
    (a_last.op = "get" /\ a_resp = Exc("HttpError", HTTP_NOT_FOUND))
        => (/\ a_last.out = "EmailNotFoundError"
            /\ a_last.code = "EMAIL_NOT_FOUND"
            /\ a_last.emails = <<>>)

\* C11 witness: a connected client asked for a message and the provider
\* answered 404.
C11_Witness ==
    /\ a_service = "svc"
    /\ a_last.op = "get"
    /\ a_resp = Exc("HttpError", HTTP_NOT_FOUND)
    /\ a_last.out = "EmailNotFoundError"

\* An operation that called email_api.get_client(): a direct call or a
\* request to a route of the service.
CalledGetClient == d_last.op \in {"get_client", "route"}

\* C12 as stated: after register_client_factory(F), every
\* email_api.get_client() call invokes the factory registered last and returns
\* an instance no earlier call returned.
C12_LatestFactoryFresh_AsStated ==
    [][(d_ops' # d_ops /\ d_last'.op \in {"get_client", "route"}
           /\ d_lastReg # "None")
         => (/\ d_last'.invoked = d_lastReg
             /\ d_last'.cls = d_lastReg
             /\ d_last'.obj \notin d_ids)]_vars

\* C12, amended: after register_client_factory(F), and as long as
\* mail_client_adapter has not been imported, every email_api.get_client()
\* call invokes the factory registered last -- a later registration replaces
\* an earlier one -- and returns an instance no earlier call returned.
C12_LatestFactoryFresh ==
    [][(d_ops' # d_ops /\ d_last'.op \in {"get_client", "route"}
           /\ d_lastReg # "None" /\ "mail_client_adapter" \notin d_imported)
         => (/\ d_last'.invoked = d_lastReg
             /\ d_last'.cls = d_lastReg
             /\ d_last'.obj \notin d_ids)]_vars

\* C12 witness: gmail_impl registered GmailClient and a client was made from
\* it, another factory was registered later, and the second get_client()
\* returned a second object, made by the later factory.
C12_Witness ==
    /\ d_last.op = "get_client"
    /\ "gmail_impl" \in d_imported /\ "mail_client_adapter" \notin d_imported
    /\ d_classes = {"GmailClient", "OtherClient"}
    /\ d_lastReg = "OtherClient" /\ d_last.invoked = "OtherClient"
    /\ d_last.obj = 2 /\ d_ids = {1, 2}

\* C13: once mail_client_adapter has been imported, every get_client() call
\* returns a ServiceBackedClient, whatever factories were registered before
\* or after the import.
C13_AdapterOverrides ==
    ("mail_client_adapter" \in d_imported /\ CalledGetClient)
        => (d_last.cls = "ServiceBackedClient" /\ d_last.invoked = "none")

\* C13 witness: a factory was registered after the import of
\* mail_client_adapter and get_client() still gave the adapter.
C13_Witness ==
    /\ d_last.op = "get_client"
    /\ "mail_client_adapter" \in d_imported
    /\ d_regAfter /\ d_factory # "None"
    /\ d_last.cls = "ServiceBackedClient"

C15_NotImplemented ==
    (d_last.op = "route" /\ d_last.exc = "none")
        => (/\ d_last.lacks => d_last.status = "501"
            /\ d_last.status = "501" => d_last.called = <<>>)

\* C15 witness: the Gmail client is injected and a single message is
\* requested: the client has no get_message and the answer is 501.
C15_Witness ==
    /\ d_last.op = "route" /\ d_last.route = "get_message"
    /\ d_last.cls = "GmailClient"
    /\ d_last.lacks /\ d_last.status = "501" /\ d_last.called = <<>>

\* C16: ServiceBackedClient.get_messages(limit=n) yields at most n Emails,
\* however many messages the remote service lists.
C16_AdapterLimit ==
    (d_last.op = "adapter.get_messages" /\ d_last.limit # None)
        => d_last.count <= d_last.limit[1]

\* The address _parse_email_addresses takes from one comma-separated segment.
SegmentAddress(seg) == ParseSegment("A", Strip(seg, WhiteSpace)).address
\* A segment that is non-empty after trimming and yields a non-empty address.
QualifyingSegment(seg) ==
    Strip(seg, WhiteSpace) # <<>> /\ SegmentAddress(seg) # <<>>

\* C17: _parse_email_addresses returns exactly one EmailAddress per
\* comma-separated segment that is non-empty after trimming and yields a
\* non-empty address, in the order of the segments, without deduplication or
\* sorting; an empty or whitespace-only string gives the empty list.
C17_OnePerSegment ==
    n_fn = "parse_email_addresses" =>
        LET good == SelectSeq(Split(n_in.v, ","), QualifyingSegment)
        IN  /\ Len(n_out) = Len(good)
            /\ \A i \in 1..Len(good) : n_out[i].address = SegmentAddress(good[i])
            /\ Strip(n_in.v, WhiteSpace) = <<>> => n_out = <<>>

\* C17 witness: "b,,a" has three segments, the empty one is passed over and
\* the two addresses come out in the order of the input, unsorted.
C17_Witness ==
    /\ n_fn = "parse_email_addresses" /\ n_impl = "A"
    /\ n_in.v = <<"b", ",", ",", "a">>
    /\ Len(n_out) = 2
    /\ n_out[1].address = <<"b">> /\ n_out[2].address = <<"a">>

\* C18: the sender's display name of every Email is None or non-empty after
\* trimming; the From header "<a>" (empty name part) gives the name None.
C18_SenderName ==
    n_fn = "sender" =>
        /\ n_out.sender.name.isNone
              \/ Strip(n_out.sender.name.s, WhiteSpace) # <<>>
        /\ (n_out.hasFrom /\ n_in.v = <<"<", "a", ">">>) => n_out.sender.name.isNone

\* C19: _parse_date never raises; for the empty string and for every string
\* that is not a parseable RFC 2822 date it returns the Unix epoch, UTC.
C19_ParseDateNeverRaises ==
    n_fn = "parse_date" =>
        /\ n_out.exc = "none"
        /\ ParsedateToDatetime(n_in.v).kind # "datetime" => n_out = Epoch

RECURSIVE LeavesOf(_)
RECURSIVE LeavesOfAll(_)
\* The nodes of a payload tree that are not multipart, in document order.
LeavesOf(part) ==
    IF IsMultipart(part.mimeType) THEN LeavesOfAll(part.parts) ELSE <<part>>
LeavesOfAll(parts) ==
    IF parts = <<>> THEN <<>> ELSE LeavesOf(Head(parts)) \o LeavesOfAll(Tail(parts))

IsPlainWithData(l) == l.mimeType = "text/plain" /\ l.data # <<>>
IsHtmlWithData(l) == l.mimeType = "text/html" /\ l.data # <<>>
\* The candidate the walk ends with: the decoding of the last node of that
\* type that carries data, None when there is no such node.
LastDecoded(impl, ls) ==
    IF ls = <<>> THEN StrNone ELSE DecodeBody(impl, ls[Len(ls)].data)
TextCandidate == LastDecoded(n_impl, SelectSeq(LeavesOf(n_in.v), IsPlainWithData))
HtmlCandidate == LastDecoded(n_impl, SelectSeq(LeavesOf(n_in.v), IsHtmlWithData))

\* C20 as stated: the result of _extract_body is the text candidate when the
\* walk found one, otherwise the HTML candidate converted to text, otherwise
\* the empty string; it is always a string, never None.
C20_BodySelection_AsStated ==
    n_fn = "extract_body" =>
        /\ ~n_out.result.isNone
        /\ n_out.result.s =
              IF ~TextCandidate.isNone THEN TextCandidate.s
              ELSE IF ~HtmlCandidate.isNone THEN HtmlToText(HtmlCandidate.s)
              ELSE <<>>

\* C20, amended: the result of _extract_body is the text candidate when the
\* walk found a non-empty one, otherwise the HTML candidate converted to text
\* when the walk found a non-empty one, otherwise the empty string; it is
\* always a string, never None, also when a part fails to decode.
C20_BodySelection ==
    n_fn = "extract_body" =>
        /\ ~n_out.result.isNone
        /\ n_out.result.s =
              IF Truthy(TextCandidate) THEN TextCandidate.s
              ELSE IF Truthy(HtmlCandidate) THEN HtmlToText(HtmlCandidate.s)
              ELSE <<>>

\* C20 witness: the text/plain part does not decode (its candidate is None)
\* and the body is the HTML part converted to text.
C20_Witness ==
    /\ n_fn = "extract_body" /\ n_impl = "B"
    /\ \E i \in 1..Len(LeavesOf(n_in.v)) :
          /\ IsPlainWithData(LeavesOf(n_in.v)[i])
          /\ B64Decode(LeavesOf(n_in.v)[i].data).exc # "none"
    /\ TextCandidate.isNone
    /\ n_out.result = Str(<<"y", "o">>)

\* C21: base64url round trip: for every text t, _decode_body applied to the
\* base64url encoding of t, with or without its padding, returns t; applied
\* to the empty string it returns the empty string; it never raises, whatever
\* the data (malformed base64, bytes that are not UTF-8).
C21_Base64RoundTrip ==
    n_fn = "decode_body" =>
        /\ n_out.exc = "none"
        /\ \A t \in Texts, padded \in BOOLEAN :
              n_in.v = EncodeText(t, padded) => n_out.result = Str(t)
        /\ n_in.v = <<>> => n_out.result = Str(<<>>)

\* C21 witness: the encoding of a two-byte character, sent without its
\* padding, is decoded to that character.
C21_Witness ==
    /\ n_fn = "decode_body" /\ n_impl = "async"
    /\ n_in.v = EncodeText(<<Chr(233)>>, FALSE)
    /\ Len(n_in.v) = 3
    /\ n_out = [exc |-> "none", result |-> Str(<<Chr(233)>>)]

\* A substring of the form <tag>: "<", one or more characters other than
\* ">", and ">".
HasTag(s) ==
    \E i \in 1..Len(s), j \in 1..Len(s) :
        /\ j > i + 1 /\ s[i] = "<" /\ s[j] = ">"
        /\ \A k \in (i + 1)..(j - 1) : s[k] # ">"
\* The payload has an HTML part with data and no text/plain part with data.
IsHtmlOnly(payload) ==
    /\ SelectSeq(LeavesOf(payload), IsPlainWithData) = <<>>
    /\ SelectSeq(LeavesOf(payload), IsHtmlWithData) # <<>>
\* s has the characters of p somewhere, one after the other.
HasSubstring(s, p) ==
    \E i \in 1..(Len(s) - Len(p) + 1) : SubSeq(s, i, i + Len(p) - 1) = p
HasBracketEntity(html) ==
    \/ HasSubstring(html, <<"&", "l", "t", ";">>)
    \/ HasSubstring(html, <<"&", "g", "t", ";">>)

NonBlank(o) == ~o.isNone /\ \E i \in 1..Len(o.s) : o.s[i] \notin WhiteSpace

\* C23: Email.get_content() returns body_text when body_text has
\* non-whitespace content, otherwise body_html when body_html has
\* non-whitespace content, otherwise the empty string; has_content is true
\* exactly when get_content() has a character that is not whitespace.
C23_GetContent ==
    n_fn = "get_content" =>
        /\ n_out.content =
              IF NonBlank(n_in.v.body_text) THEN n_in.v.body_text.s
              ELSE IF NonBlank(n_in.v.body_html) THEN n_in.v.body_html.s
              ELSE <<>>
        /\ n_out.has_content <=> NonBlank(Str(n_out.content))

\* C23 witness: body_text is blank, and get_content() is the HTML body, as it
\* was given.
C23_Witness ==
    /\ n_fn = "get_content"
    /\ n_in.v.body_text = Str(<<" ">>)
    /\ n_in.v.body_html = Str(<<"<", "a">>)
    /\ n_out = [has_content |-> TRUE, content |-> <<"<", "a">>]

RECURSIVE RunCall(_, _)
\* The call carried through to its end with nothing else going on.
RunCall(impl, call) ==
    IF call.pc = "done" THEN call ELSE RunCall(impl, StepCall(impl, call))
\* What _parse_message gives for a message on a client that has parsed
\* nothing before and parses nothing else.
ParseAlone(impl, msg) == RunCall(impl, StartCall(impl, msg, IdleCall)).result

\* C24: the normalizer keeps no state between calls and changes no input:
\* whatever was parsed before on the client and whatever is being parsed at
\* the same time, a call returns what it returns for its message alone, and
\* the message of a call in progress stays as it was given.
C24_Stateless ==
    /\ [](\A c \in DOMAIN p_calls :
            p_calls[c].pc = "done"
                => p_calls[c].result = ParseAlone(p_impl, p_calls[c].msg))
    /\ [][\A c \in DOMAIN p_calls :
            p_calls[c].pc \in {"headers", "walk"}
                => p_calls'[c].msg = p_calls[c].msg]_vars

\* C24 witness: one call is in the middle of its tree walk, holding the text
\* candidate "hi", while the other call has returned the body of its own
\* message, "yo".
C24_Witness ==
    /\ p_pool = "small"
    /\ p_calls[1].pc = "walk" /\ p_calls[1].stack # <<>>
    /\ p_calls[1].cand.text = Str(TextHi)
    /\ p_calls[2].pc = "done"
    /\ p_calls[2].result.kind = "email"
    /\ p_calls[2].result.email.body = Str(<<"y", "o">>)

\* A step of parsing the message fails: the headers are null, or a From or
\* To header has a null value.
StepFails(msg) ==
    \/ msg.hdrNull
    \/ \E i \in 1..Len(msg.headers) :
          msg.headers[i].name \in {"from", "to"} /\ msg.headers[i].value.isNone

\* C25: in variant A, _parse_message never raises; when the id is missing or
\* empty or a step of parsing fails it returns the Email with id "", subject
\* "", sender unknown@unknown.com without name, no recipients, both dates the
\* epoch and body "".
C25_SentinelNeverRaises ==
    \A c \in DOMAIN p_calls :
        (p_impl = "A" /\ p_calls[c].pc = "done") =>
            LET r == p_calls[c].result
                m == p_calls[c].msg
            IN  /\ r.kind = "email"
                /\ (~Truthy(m.id) \/ StepFails(m)) =>
                      /\ r.email.id = <<>>
                      /\ r.email.subject = Str(<<>>)
                      /\ r.email.sender = EmailAddress(<<"unknown@unknown.com">>, StrNone)
                      /\ r.email.recipients = <<>>
                      /\ r.email.date_sent = DateTime("1970-01-01T00:00:00+00:00")
                      /\ r.email.date_received = r.email.date_sent
                      /\ r.email.body = Str(<<>>)

\* C25 witness: the message has an id and a Subject header, then a To header
\* with a null value; what was read before the failure is not returned.
C25_Witness ==
    /\ p_impl = "A" /\ p_pool = "full"
    /\ p_calls[1].pc = "done"
    /\ p_calls[1].msg.id = Str(<<"m">>)
    /\ p_calls[1].msg.headers =
           <<Header("subject", Str(<<"s">>), ""), Header("to", StrNone, "")>>
    /\ p_calls[1].subject = Str(<<"s">>)
    /\ p_calls[1].result = Returned(SentinelEmail)

IsToHeader(h) == h.name = "to"
RECURSIVE AllRecipients(_, _)
\* The addresses of the To headers, one header after the other.
AllRecipients(impl, hs) ==
    IF hs = <<>> THEN <<>>
    ELSE ParseEmailAddresses(impl, Head(hs).value.s) \o AllRecipients(impl, Tail(hs))
\* The call returned an Email made from its message, not the sentinel.
ReturnedParsed(c) ==
    /\ p_calls[c].pc = "done"
    /\ p_calls[c].result.kind = "email"
    /\ ~(p_impl = "A" /\ p_calls[c].result.email = SentinelEmail)

\* C27 as stated: when the payload has several To headers, the recipients are
\* those of the first To header only.
C27_FirstToOnly_AsStated ==
    \A c \in DOMAIN p_calls :
        LET tos == SelectSeq(p_calls[c].msg.headers, IsToHeader)
        IN  (ReturnedParsed(c) /\ Len(tos) >= 2) =>
                p_calls[c].result.email.recipients
                    = ParseEmailAddresses(p_impl, tos[1].value.s)

\* C27, amended: when the payload has several To headers, the recipients are
\* those of all the To headers, in the order of the headers.
C27_AllToHeaders ==
    \A c \in DOMAIN p_calls :
        LET tos == SelectSeq(p_calls[c].msg.headers, IsToHeader)
        IN  (ReturnedParsed(c) /\ Len(tos) >= 2) =>
                p_calls[c].result.email.recipients = AllRecipients(p_impl, tos)

\* C27 witness: the To headers "a" and "b,a" give the recipients a, b, a.
C27_Witness ==
    /\ ReturnedParsed(1)
    /\ p_calls[1].msg.headers =
           <<Header("to", Str(<<"a">>), ""), Header("to", Str(<<"b", ",", "a">>), "")>>
    /\ Len(p_calls[1].result.email.recipients) = 3
    /\ p_calls[1].result.email.recipients[1].address = <<"a">>
    /\ p_calls[1].result.email.recipients[2].address = <<"b">>
    /\ p_calls[1].result.email.recipients[3].address = <<"a">>

\* C26: when the tree holds several text/plain parts with non-empty body
\* data, the text candidate is the decoding of the last of them in
\* depth-first pre-order; the same holds of the text/html parts and the HTML
\* candidate.
C26_LastPartWins ==
    n_fn \in {"extract_body", "extract_message_content"} =>
        LET plains == SelectSeq(LeavesOf(n_in.v), IsPlainWithData)
            htmls == SelectSeq(LeavesOf(n_in.v), IsHtmlWithData)
        IN  /\ Len(plains) >= 2 =>
                  n_out.cand.text = DecodeBody(n_impl, plains[Len(plains)].data)
            /\ Len(htmls) >= 2 =>
                  n_out.cand.html = DecodeBody(n_impl, htmls[Len(htmls)].data)

\* C26 witness: a text/plain part inside a multipart/alternative node, then
\* the text/plain part "hi" next to that node: the text candidate is "hi".
C26_Witness ==
    /\ n_fn = "extract_message_content"
    /\ n_in.v = Part("multipart/mixed", <<>>,
                     <<Part("multipart/alternative", <<>>,
                            <<Part("text/plain",
                                   <<"P", "G", "I", "-", "e", "W", "8", "8", "L", "2", "I", "-">>,
                                   <<>>)>>),
                       PlainHi>>)
    /\ n_out.cand.text = Str(<<"h", "i">>)

\* The text/plain parts of the tree that decode to non-empty text.
DecodablePlains ==
    SelectSeq(LeavesOf(n_in.v),
              LAMBDA l : IsPlainWithData(l) /\ Truthy(DecodeBody(n_impl, l.data)))

\* C28: an undecodable body part never discards content found in another
\* part: when at least one text/plain part of the tree decodes to non-empty
\* text, the body _extract_body returns is the non-empty text of a
\* text/plain part, wherever an undecodable text/plain part sits.
C28_UndecodablePartKeepsContent ==
    (n_fn = "extract_body" /\ DecodablePlains # <<>>) =>
        \E i \in 1..Len(DecodablePlains) :
            n_out.result = DecodeBody(n_impl, DecodablePlains[i].data)

\* C29: a list request is only issued by a client whose connectivity check
\* succeeded: a get_messages call that has issued a list request runs on a
\* service whose getProfile check succeeded, and a call that _ensure_connected
\* ended with an exception leaves _service None, so that the next call
\* authenticates and checks again.
C29_ListOnlyWhenConnected ==
    /\ listCalls > 0 => verified
    /\ (pc = "raised" /\ last.op = "connect") => service = "None"

\* No two list requests of the call carry the same parameters.
NoRepeatedListRequest ==
    \A i, j \in DOMAIN listReqs : i # j => listReqs[i] # listReqs[j]

\* C30: when the provider's listing is finite, a get_messages iterator that
\* is consumed to its end always ends, by exhaustion or by raising, for
\* limit None and for every limit, also when every listed message is
\* skipped; and it never issues the same list request twice.
C30_Termination ==
    /\ (pc = "start") ~> (pc \in {"done", "raised"})
    /\ []NoRepeatedListRequest

\* C30 witness: a call with limit None has ended by exhaustion after two
\* list requests, every listed message having been skipped.
C30_Witness ==
    /\ pc = "done" /\ limit = None
    /\ listCalls = 2 /\ listReqs[1] # listReqs[2]
    /\ Len(fetched) = Len(listed) /\ Len(listed) >= 2
    /\ yielded = <<>>

====
